---- MODULE Spec2Model ----
(***************************************************************************)
(* A model of tablo's feature-service core: the query path                 *)
(* (QueryView.handle_request -> FeatureServiceLayer.perform_query) and the *)
(* mutation path (add_feature / update_feature / delete_feature).          *)
(*                                                                         *)
(* SQL text is modelled as a sequence of lexemes.  Every lexeme records    *)
(* where its text came from (org): "code" for text written in the source,  *)
(* "catalog" for names read from the database or the layer's row, or the   *)
(* name of the request parameter whose value was copied into the text.     *)
(* Bound parameters are kept in a separate list, as the driver keeps them. *)
(***************************************************************************)
EXTENDS Integers, Sequences, FiniteSets, TLC

VARIABLES
    layer,      \* the FeatureServiceLayer row: start_time_field
    table,      \* the layer's table: a sequence of rows
    pc,         \* position of the request being served
    req,        \* the request's kwargs (raw strings, "" when absent)
    call,       \* arguments of perform_query: limit, offset, search_params
    compiled,   \* the compiled statement: lexemes and bound parameters
    executed,   \* statements sent through cursor.execute for this request
    result,     \* what perform_query returned or raised
    response    \* the HTTP response of the view

vars == <<layer, table, pc, req, call, compiled, executed, result, response>>

(***************************************************************************)
(* Bounds of the model.                                                    *)
(***************************************************************************)
MaxRows == 3        \* rows of the layer's table
MaxParams == 3      \* query parameters a single request supplies

(***************************************************************************)
(* Program constants.                                                      *)
(***************************************************************************)
PRIMARY_KEY_NAME == "db_id"
GEOM_FIELD_NAME == "dbasin_geom"
WEB_MERCATOR_SRID == 3857
QUERY_LIMIT == 10000
SecondsPerDay == 86400
MillisPerSecond == 1000

(***************************************************************************)
(* The database: the layer's table, its columns, one relation.             *)
(***************************************************************************)
TableName == "db_table"

\* information_schema.columns of the layer's table, in ordinal position
TableColumns == <<"db_id", "site", "depth", "obs_date", "dbasin_geom">>

\* FeatureServiceLayerRelations: one relation of the layer
Relations ==
    << [related_index |-> 0, related_title |-> "measurements",
        source_column |-> "site", target_column |-> "site_ref"] >>

\* FeatureServiceLayerRelations.table
RelationTable(r) == TableName \o "_" \o ToString(r.related_index)

\* columns of the related table
RelatedColumns == <<"site_ref", "well_depth">>

\* rows of the related table: site 1 has two measurements, site 2 none
RelatedRows ==
    << [site_ref |-> 1, well_depth |-> 0], [site_ref |-> 1, well_depth |-> 1] >>

NullGeom == <<>>

\* the i-th row of the sample data the table is loaded with
SampleRow(i) ==
    [db_id |-> i,
     site |-> IF i % 2 = 1 THEN 1 ELSE 2,
     depth |-> (i \div 2) % 2,
     obs_date |-> ((i - 1) % 3) * (SecondsPerDay \div 2),
     dbasin_geom |-> <<i % 2, (i \div 2) % 2>>]

SampleTable(n) == [i \in 1..n |-> SampleRow(i)]

\* the FeatureServiceLayer row of the layer
LayerRow(time_field) ==
    [start_time_field |-> time_field, geometry_type |-> "esriGeometryPoint",
     srid |-> WEB_MERCATOR_SRID]

(***************************************************************************)
(* Generic helpers.                                                        *)
(***************************************************************************)
Range(s) == {s[i] : i \in DOMAIN s}

Contains(s, x) == \E i \in DOMAIN s : s[i] = x

RECURSIVE Flatten(_)
Flatten(ss) ==
    IF ss = <<>> THEN <<>>
    ELSE IF Len(ss) = 1 THEN ss[1]
    ELSE Flatten(SubSeq(ss, 1, Len(ss) \div 2)) \o Flatten(SubSeq(ss, Len(ss) \div 2 + 1, Len(ss)))

\* Python's max()
Max(a, b) == IF a >= b THEN a ELSE b

\* ''.join
RECURSIVE Joined(_)
Joined(chars) == IF chars = <<>> THEN "" ELSE Head(chars) \o Joined(Tail(chars))

\* the elements of s without repetition, first occurrences kept (OrderedSet)
RECURSIVE OrderedSet(_)
OrderedSet(s) ==
    IF s = <<>> THEN <<>>
    ELSE LET init == OrderedSet(SubSeq(s, 1, Len(s) - 1))
             last == s[Len(s)]
         IN IF Contains(init, last) THEN init ELSE Append(init, last)

\* s with x inserted at its front: list.insert(0, x)
InsertFront(s, x) == <<x>> \o s

(***************************************************************************)
(* The request: what the client sends.                                     *)
(***************************************************************************)
NoRequest ==
    [where |-> "", outFields |-> "", orderByFields |-> "", objectIds |-> "",
     time |-> "", geometryType |-> "", geometry |-> "", outSR |-> "",
     limit |-> "", offset |-> "", returnIdsOnly |-> "",
     returnCountOnly |-> "", returnGeometry |-> "", f |-> ""]

EnvelopeJson == "{\"xmin\":0,\"ymin\":0,\"xmax\":0,\"ymax\":1,\"spatialReference\":{\"wkid\":3857}}"

\* the values a client may give each parameter
SlotValues ==
    [where |-> {"depth = 1", "site = 1 OR depth = 1", "NOT depth = 1",
                "site = 1 AND depth = 1", "(site = 1 OR depth = 1)",
                "nonexistent_col = 1", "1=1; DROP TABLE x",
                "measurements.well_depth = 1",
                "measurements.site_ref = 1",
                "depth = 1 OR nonexistent_col = 1 AND other_col = 1"},
     outFields |-> {"*", "depth", "nonexistent_col", "measurements.well_depth",
                    "depth,db_id", "*,measurements.*"},
     orderByFields |-> {"depth DESC", "measurements.well_depth", "nonexistent_col",
                        "depth,site", "depth desc", "depth  DESC"},
     objectIds |-> {"1", "2,3"},
     time |-> {"0,0", "43200000,129600000"},
     geometryType |-> {"esriGeometryEnvelope", "esriGeometryPoint"},
     outSR |-> {"4326", "4326; DROP TABLE db_table"},
     limit |-> {"0", "1", "2", "-1"},
     offset |-> {"1"},
     returnIdsOnly |-> {"true"},
     returnCountOnly |-> {"true"},
     returnGeometry |-> {"false"},
     f |-> {"csv"}]

Slots == DOMAIN SlotValues

\* the request r with parameter slot given the value v
Supply(r, slot, v) ==
    IF slot = "geometryType"
    THEN [r EXCEPT !.geometryType = v, !.geometry = EnvelopeJson]
    ELSE [r EXCEPT ![slot] = v]

\* the requests that supply at most k parameters
RECURSIVE RequestsUpTo(_)
RequestsUpTo(k) ==
    IF k = 0 THEN {NoRequest}
    ELSE LET prev == RequestsUpTo(k - 1)
         IN prev \cup
            UNION { UNION { { Supply(r, slot, v) : v \in SlotValues[slot] }
                            : slot \in {s \in Slots : r[s] = ""} }
                    : r \in prev }

Requests == RequestsUpTo(MaxParams)

(***************************************************************************)
(* Parsing of the raw parameter strings (str.split, int, float, json).     *)
(***************************************************************************)
\* s.split(',')
CommaSplit(s) ==
    CASE s = "" -> <<>>
      [] s = "depth,db_id" -> <<"depth", "db_id">>
      [] s = "*,measurements.*" -> <<"*", "measurements.*">>
      [] s = "depth,site" -> <<"depth", "site">>
      [] s = "2,3" -> <<"2", "3">>
      [] s = "0,0" -> <<"0", "0">>
      [] s = "43200000,129600000" -> <<"43200000", "129600000">>
      [] OTHER -> <<s>>

\* int(s) and float(s) of the numeric strings a request carries
ToInt(s) ==
    CASE s = "0" -> 0
      [] s = "1" -> 1
      [] s = "2" -> 2
      [] s = "3" -> 3
      [] s = "-1" -> 0 - 1
      [] s = "43200000" -> 43200000
      [] s = "129600000" -> 129600000
      [] s = "4326" -> 4326

\* the strings that are the decimal text of an integer
IsIntText(s) ==
    s \in {"0", "1", "2", "3", "-1", "43200000", "129600000", "4326", "3857"}
          \cup {ToString(n) : n \in 0..(MaxRows + 3)}

\* the characters of an order-by field
Chars(field) ==
    CASE field = "depth DESC" -> <<"d", "e", "p", "t", "h", " ", "D", "E", "S", "C">>
      [] field = "depth desc" -> <<"d", "e", "p", "t", "h", " ", "d", "e", "s", "c">>
      [] field = "depth  DESC" -> <<"d", "e", "p", "t", "h", " ", " ", "D", "E", "S", "C">>
      [] field = "depth" -> <<"d", "e", "p", "t", "h">>
      [] field = "site" -> <<"s", "i", "t", "e">>
      [] field = "nonexistent_col" ->
            <<"n", "o", "n", "e", "x", "i", "s", "t", "e", "n", "t", "_", "c", "o", "l">>
      [] field = "measurements.well_depth" ->
            <<"m", "e", "a", "s", "u", "r", "e", "m", "e", "n", "t", "s", ".",
              "w", "e", "l", "l", "_", "d", "e", "p", "t", "h">>

\* a character under re.IGNORECASE
LowerChar(ch) ==
    CASE ch = "A" -> "a" [] ch = "C" -> "c" [] ch = "D" -> "d" [] ch = "E" -> "e"
      [] ch = "S" -> "s" [] OTHER -> ch

\* re.match('(\S*)\s?(asc|desc)?', field, re.IGNORECASE): groups 1 and 2; the
\* greedy \S* takes every character up to the first whitespace, \s? at most
\* one whitespace character, and the modifier must begin right after it
OrderByGroups(chars) ==
    LET spaces == {i \in DOMAIN chars : chars[i] = " "}
        word_end == IF spaces = {} THEN Len(chars)
                    ELSE (CHOOSE i \in spaces : \A j \in spaces : i <= j) - 1
        from == IF word_end < Len(chars) THEN word_end + 2 ELSE word_end + 1
        ahead(n) == IF from + n - 1 <= Len(chars)
                    THEN [k \in 1..n |-> LowerChar(chars[from + k - 1])] ELSE <<>>
        modifier == IF ahead(3) = <<"a", "s", "c">> THEN SubSeq(chars, from, from + 2)
                    ELSE IF ahead(4) = <<"d", "e", "s", "c">> THEN SubSeq(chars, from, from + 3)
                    ELSE <<>>
    IN [field_name |-> Joined(SubSeq(chars, 1, word_end)), order_modifier |-> Joined(modifier)]

\* the order-by fields a request may carry
OrderByTexts == UNION {Range(CommaSplit(v)) : v \in SlotValues.orderByFields}

\* the match of each of them
OrderByMatches == [field \in OrderByTexts |-> OrderByGroups(Chars(field))]

OrderByMatch(field) == OrderByMatches[field]

\* Extent(json.loads(geometry))
EnvelopeOf(json) ==
    CASE json = EnvelopeJson -> [xmin |-> 0, ymin |-> 0, xmax |-> 0, ymax |-> 1]

\* f.split('.') of a field name
DotSplit(f) ==
    LET hits == { <<r, c>> \in Range(Relations) \X (Range(RelatedColumns) \cup {"*"}) :
                     f = r.related_title \o "." \o c }
    IN IF hits = {} THEN <<f>>
       ELSE LET h == CHOOSE h \in hits : TRUE IN <<h[1].related_title, h[2]>>

(***************************************************************************)
(* sqlparse: lexemes, statements, identifier grouping.                     *)
(***************************************************************************)
Lexeme(ttype, value, org) == [ttype |-> ttype, value |-> value, org |-> org]

Kw(v) == Lexeme("Keyword", v, "where")
Nm(v) == Lexeme("Name", v, "where")
Op(v) == Lexeme("Comparison", v, "where")
Num(v) == Lexeme("Number", v, "where")
Pn(v) == Lexeme("Punctuation", v, "where")

\* the leaf tokens sqlparse's lexer yields for a where-clause text
\* (whitespace tokens left out)
Lex(where) ==
    CASE where = "depth = 1" -> <<Nm("depth"), Op("="), Num("1")>>
      [] where = "site = 1 OR depth = 1" ->
            <<Nm("site"), Op("="), Num("1"), Kw("OR"), Nm("depth"), Op("="), Num("1")>>
      [] where = "NOT depth = 1" -> <<Kw("NOT"), Nm("depth"), Op("="), Num("1")>>
      [] where = "site = 1 AND depth = 1" ->
            <<Nm("site"), Op("="), Num("1"), Kw("AND"), Nm("depth"), Op("="), Num("1")>>
      [] where = "(site = 1 OR depth = 1)" ->
            <<Pn("("), Nm("site"), Op("="), Num("1"), Kw("OR"),
              Nm("depth"), Op("="), Num("1"), Pn(")")>>
      [] where = "nonexistent_col = 1" -> <<Nm("nonexistent_col"), Op("="), Num("1")>>
      [] where = "1=1; DROP TABLE x" ->
            <<Num("1"), Op("="), Num("1"), Pn(";"), Kw("DROP"), Kw("TABLE"), Nm("x")>>
      [] where = "measurements.well_depth = 1" ->
            <<Nm("measurements"), Pn("."), Nm("well_depth"), Op("="), Num("1")>>
      [] where = "depth = 1 OR nonexistent_col = 1 AND other_col = 1" ->
            <<Nm("depth"), Op("="), Num("1"), Kw("OR"), Nm("nonexistent_col"), Op("="),
              Num("1"), Kw("AND"), Nm("other_col"), Op("="), Num("1")>>
      [] where = "measurements.site_ref = 1" ->
            <<Nm("measurements"), Pn("."), Nm("site_ref"), Op("="), Num("1")>>

IsSemicolon(t) == t.ttype = "Punctuation" /\ t.value = ";"

\* sqlparse's statement splitter: a statement ends with its semicolon
RECURSIVE SplitStatements(_)
SplitStatements(toks) ==
    LET ends == {i \in DOMAIN toks : IsSemicolon(toks[i])}
    IN IF ends = {} THEN <<toks>>
       ELSE LET i == CHOOSE i \in ends : \A j \in ends : i <= j
            IN IF i = Len(toks) THEN <<toks>>
               ELSE <<SubSeq(toks, 1, i)>> \o SplitStatements(SubSeq(toks, i + 1, Len(toks)))

\* sqlparse.parse('WHERE ' + where): the statements, each a flattened token list
SqlParse(where) == SplitStatements(<<Kw("WHERE")>> \o Lex(where))

IsDot(t) == t.ttype = "Punctuation" /\ t.value = "."

\* first token of the dotted identifier that token i belongs to
RECURSIVE ChainStart(_, _)
ChainStart(toks, i) ==
    IF i > 2 /\ IsDot(toks[i - 1]) /\ toks[i - 2].ttype = "Name"
    THEN ChainStart(toks, i - 2) ELSE i

\* text of the dotted identifier starting at token i
RECURSIVE ChainText(_, _)
ChainText(toks, i) ==
    IF i + 2 <= Len(toks) /\ IsDot(toks[i + 1]) /\ toks[i + 2].ttype = "Name"
    THEN toks[i].value \o "." \o ChainText(toks, i + 2)
    ELSE toks[i].value

\* token.parent.value of a Name token: the text of its Identifier group
ParentValue(toks, i) == ChainText(toks, ChainStart(toks, i))

(***************************************************************************)
(* The field catalog of the layer.                                         *)
(***************************************************************************)
\* FeatureServiceLayer.fields: the names get_fields reads
FieldNames == TableColumns

\* FeatureServiceLayer.related_fields: the qualified names, in order
RelatedFieldNames ==
    Flatten([i \in DOMAIN Relations |->
               [j \in DOMAIN RelatedColumns |->
                  Relations[i].related_title \o "." \o RelatedColumns[j]]])

(***************************************************************************)
(* Validation.                                                             *)
(***************************************************************************)
NoError == [error |-> "", fields |-> {}]

\* a variant of _validate_fields that leaves one invalid field out of the error
ValidateFieldsOmittingOne(fields, include_related) ==
    LET valid == Range(FieldNames) \cup {"*"} \cup Range(RelatedFieldNames)
                 \cup {r.related_title \o ".*" : r \in Range(Relations)}
        invalid_fields == fields \ valid
    IN IF invalid_fields = {} THEN NoError
       ELSE [error |-> "InvalidFieldsError",
             fields |-> invalid_fields \ {CHOOSE f \in invalid_fields : TRUE}]

\* FeatureServiceLayer._validate_fields
ValidateFields(fields, include_related) ==
    LET query_fields == fields
        all_related == {r.related_title \o ".*" : r \in Range(Relations)}
        valid_source == Range(FieldNames) \cup {"*"}
        valid_target == Range(RelatedFieldNames) \cup all_related
        invalid_fields == query_fields \ valid_source
        related_fields == invalid_fields \cap valid_target
        remaining == IF include_related THEN invalid_fields \ valid_target
                     ELSE invalid_fields
    IN IF query_fields = {} \/ invalid_fields = {} THEN NoError
       ELSE IF ~include_related /\ related_fields # {}
            THEN [error |-> "RelatedFieldsError", fields |-> related_fields]
       ELSE IF remaining # {}
            THEN [error |-> "InvalidFieldsError", fields |-> remaining]
       ELSE NoError

\* FeatureServiceLayer._parse_where_clause: (fields, additional statements)
ParseWhereClause(where) ==
    LET parsed == SqlParse(where)
        first == parsed[1]
    IN [fields |-> {ParentValue(first, i) : i \in {j \in DOMAIN first : first[j].ttype = "Name"}},
        additional |-> Tail(parsed)]

\* a variant of _validate_where_clause that does not look at the statements
\* after the first
ValidateWhereClauseFirstStatement(where) ==
    IF where = "" THEN NoError
    ELSE ValidateFields(ParseWhereClause(where).fields, TRUE)

\* FeatureServiceLayer._validate_where_clause ("" stands for None)
ValidateWhereClause(where) ==
    IF where = "" THEN NoError
    ELSE LET parsed == ParseWhereClause(where)
         IN IF parsed.additional # <<>>
            THEN [error |-> "InvalidSQLError", fields |-> {}]
            ELSE ValidateFields(parsed.fields, TRUE)

(***************************************************************************)
(* Compilation of the SELECT statement.                                    *)
(***************************************************************************)
Code(ttype, value) == Lexeme(ttype, value, "code")

Comma == Code("Punctuation", ",")
Dot == Code("Punctuation", ".")
Placeholder == Code("Placeholder", "%s")

\* a field name together with the origin of its text
Field(name, org) == [name |-> name, org |-> org]

FieldsOf(names, org) == [i \in DOMAIN names |-> Field(names[i], org)]

NamesOf(fields) == [i \in DOMAIN fields |-> fields[i].name]

\* OrderedSet over fields: one entry per name, first occurrence kept
RECURSIVE OrderedFields(_)
OrderedFields(fs) ==
    IF fs = <<>> THEN <<>>
    ELSE LET init == OrderedFields(SubSeq(fs, 1, Len(fs) - 1))
             last == fs[Len(fs)]
         IN IF Contains(NamesOf(init), last.name) THEN init ELSE Append(init, last)

\* the quoted identifier of one name segment; '"*"' is written back as '*'
Quoted(segment, org) ==
    IF segment = "*" THEN Lexeme("Wildcard", "*", org) ELSE Lexeme("Name", segment, org)

\* one field as _alias_fields writes it: "source"."f" or "title"."f"
AliasField(f) ==
    LET parts == DotSplit(f.name)
    IN IF Len(parts) = 1
       THEN <<Code("Name", "source"), Dot, Quoted(f.name, f.org)>>
       ELSE <<Quoted(parts[1], f.org), Dot, Quoted(parts[2], f.org)>>

\* ', '.join of lexeme lists
RECURSIVE JoinComma(_)
JoinComma(parts) ==
    IF parts = <<>> THEN <<>>
    ELSE IF Len(parts) = 1 THEN parts[1]
    ELSE parts[1] \o <<Comma>> \o JoinComma(Tail(parts))

IsWildOrDotted(name) == name = "*" \/ Len(DotSplit(name)) > 1

\* the list _expand_fields builds before it removes duplicates
RECURSIVE ExpandEach(_)
ExpandEach(fields) ==
    IF fields = <<>> THEN <<>>
    ELSE LET f == Head(fields)
             parts == DotSplit(f.name)
             here ==
                IF f.name = "*" THEN FieldsOf(FieldNames, "catalog")
                ELSE IF Len(parts) = 2 /\ parts[2] = "*"
                THEN FieldsOf(SelectSeq(RelatedFieldNames,
                                        LAMBDA q : DotSplit(q)[1] = parts[1]), "catalog")
                ELSE <<f>>
         IN here \o ExpandEach(Tail(fields))

FieldsToExpand(fields) ==
    OrderedFields(<<Field(PRIMARY_KEY_NAME, "catalog")>>
                  \o [i \in DOMAIN Relations |-> Field(Relations[i].source_column, "catalog")]
                  \o ExpandEach(fields))

\* '{0} AS "{1}"': a field with its alias
WithAlias(f) == AliasField(f) \o <<Code("Keyword", "AS"), Lexeme("Alias", f.name, f.org)>>

\* FeatureServiceLayer._expand_fields (an empty list is expanded as '*')
ExpandFields(fields, aliased_only) ==
    LET fs == IF fields = <<>> THEN <<Field("*", "code")>> ELSE fields
        all_aliased == aliased_only \/ fields = <<>>
    IN IF ~(\E i \in DOMAIN fs : IsWildOrDotted(fs[i].name))
       THEN JoinComma([i \in DOMAIN fs |-> AliasField(fs[i])])
       ELSE LET expanded == FieldsToExpand(fs)
            IN JoinComma([i \in DOMAIN expanded |->
                            IF all_aliased THEN AliasField(expanded[i])
                            ELSE WithAlias(expanded[i])])

\* FeatureServiceLayer._alias_fields
AliasFields(fields) ==
    IF fields = <<>> THEN ExpandFields(<<Field("*", "code")>>, TRUE)
    ELSE JoinComma([i \in DOMAIN fields |-> AliasField(fields[i])])

\* the relations _build_join_clause joins, as positions in Relations
JoinedRelations(fields, where) ==
    LET query_fields == Range(NamesOf(fields))
                        \cup (IF where = "" THEN {} ELSE ParseWhereClause(where).fields)
        picked == (query_fields \cap Range(RelatedFieldNames))
                  \cup {f \in query_fields : f = "*" \/ (Len(DotSplit(f)) = 2 /\ DotSplit(f)[2] = "*")}
        join_tables == {DotSplit(f)[1] : f \in {g \in picked : Len(DotSplit(g)) > 1}}
    IN IF fields = <<>> /\ where = "" THEN <<>>
       ELSE SelectSeq(Relations, LAMBDA r : r.related_title \in join_tables)

JoinLexemes(r) ==
    <<Code("Keyword", "LEFT OUTER JOIN"), Lexeme("Name", RelationTable(r), "catalog"),
      Code("Keyword", "AS"), Lexeme("Name", r.related_title, "catalog"),
      Code("Keyword", "ON"),
      Code("Name", "source"), Dot, Lexeme("Name", r.source_column, "catalog"),
      Code("Comparison", "="),
      Lexeme("Name", r.related_title, "catalog"), Dot,
      Lexeme("Name", r.target_column, "catalog")>>

\* FeatureServiceLayer._build_join_clause: the clause and the joined titles
BuildJoinClause(fields, where) ==
    LET relations == JoinedRelations(fields, where)
    IN [lexemes |-> Flatten([i \in DOMAIN relations |-> JoinLexemes(relations[i])]),
        related_tables |-> [i \in DOMAIN relations |-> relations[i].related_title]]

\* a bound parameter handed to cursor.execute beside the SQL text
Param(kind, v) == [kind |-> kind, v |-> v]

\* a variant of the rewriting that puts the source alias before every name,
\* qualified or not
RECURSIVE RewriteTokensAliasingAll(_, _)
RewriteTokensAliasingAll(toks, i) ==
    IF i > Len(toks) THEN <<>>
    ELSE LET t == toks[i]
             out == IF t.ttype # "Name" THEN <<t>>
                    ELSE <<Code("Name", "source"), Dot, t>>
         IN out \o RewriteTokensAliasingAll(toks, i + 1)

\* the client's where-clause as _build_where_clause writes it back
RECURSIVE RewriteTokens(_, _)
RewriteTokens(toks, i) ==
    IF i > Len(toks) THEN <<>>
    ELSE LET t == toks[i]
             out == IF t.ttype # "Name" THEN <<t>>
                    ELSE IF t.value # ParentValue(toks, i) THEN <<t>>
                    ELSE <<Code("Name", "source"), Dot, t>>
         IN out \o RewriteTokens(toks, i + 1)

SourceColumn(name) == <<Code("Name", "source"), Dot, Lexeme("Name", name, "catalog")>>

\* ','.join(['%s' for obj_id in object_ids])
RECURSIVE Placeholders(_)
Placeholders(n) ==
    IF n = 0 THEN <<>>
    ELSE IF n = 1 THEN <<Placeholder>>
    ELSE <<Placeholder, Comma>> \o Placeholders(n - 1)

\* a variant of the time predicate that shows the first time step of a
\* count-only query as well
TimePredicateOfCountToo(where, count_only, sp, time_field) ==
    LET has_start == sp.start_time # <<>>
    IN IF time_field = "" THEN <<>>
       ELSE IF has_start
       THEN IF sp.start_time = sp.end_time
            THEN <<Code("Keyword", "AND")>> \o SourceColumn(time_field)
                 \o <<Code("Comparison", "="), Code("Placeholder", "%s::date")>>
            ELSE <<Code("Keyword", "AND")>> \o SourceColumn(time_field)
                 \o <<Code("Keyword", "BETWEEN"), Code("Placeholder", "%s::date"),
                      Code("Keyword", "AND"), Code("Placeholder", "%s::date")>>
       ELSE IF where = ""
       THEN <<Code("Keyword", "AND")>> \o SourceColumn(time_field)
            \o <<Code("Comparison", "="), Lexeme("MinSubquery", time_field, "catalog")>>
       ELSE <<>>

\* the time predicate _build_where_clause appends for a layer with a time field
TimePredicate(where, count_only, sp, time_field) ==
    LET has_start == sp.start_time # <<>>
    IN IF time_field = "" THEN <<>>
       ELSE IF has_start
       THEN IF sp.start_time = sp.end_time
            THEN <<Code("Keyword", "AND")>> \o SourceColumn(time_field)
                 \o <<Code("Comparison", "="), Code("Placeholder", "%s::date")>>
            ELSE <<Code("Keyword", "AND")>> \o SourceColumn(time_field)
                 \o <<Code("Keyword", "BETWEEN"), Code("Placeholder", "%s::date"),
                      Code("Keyword", "AND"), Code("Placeholder", "%s::date")>>
       ELSE IF where = "" /\ ~count_only
       THEN <<Code("Keyword", "AND")>> \o SourceColumn(time_field)
            \o <<Code("Comparison", "="), Lexeme("MinSubquery", time_field, "catalog")>>
       ELSE <<>>

\* FeatureServiceLayer._build_where_clause: the clause and its parameters
BuildWhereClause(where, count_only, sp, time_field) ==
    LET client == IF where = ""
                  THEN <<Code("Keyword", "WHERE"), Code("Number", "1"),
                         Code("Comparison", "="), Code("Number", "1")>>
                  ELSE RewriteTokens(SqlParse(where)[1], 1)
        has_start == sp.start_time # <<>>
        time_lex == TimePredicate(where, count_only, sp, time_field)
        time_par ==
            IF time_field = "" \/ ~has_start THEN <<>>
            ELSE IF sp.start_time = sp.end_time THEN <<Param("time", sp.start_time[1])>>
            ELSE <<Param("time", sp.start_time[1]), Param("time", sp.end_time[1])>>
        ids_lex ==
            IF sp.object_ids = <<>> THEN <<>>
            ELSE <<Code("Keyword", "AND"), Code("Name", "source"), Dot,
                   Code("Name", PRIMARY_KEY_NAME), Code("Keyword", "IN"),
                   Code("Punctuation", "(")>>
                 \o Placeholders(Len(sp.object_ids)) \o <<Code("Punctuation", ")")>>
        ids_par == [i \in DOMAIN sp.object_ids |-> Param("object_id", sp.object_ids[i])]
        ext_lex ==
            IF sp.extent = <<>> THEN <<>>
            ELSE <<Code("Keyword", "AND"), Code("Intersects", "ST_Intersects")>>
        ext_par == IF sp.extent = <<>> THEN <<>> ELSE <<Param("extent", sp.extent[1])>>
    IN [lexemes |-> client \o time_lex \o ids_lex \o ext_lex,
        params |-> time_par \o ids_par \o ext_par]

\* an entry of order_by_field_objs; keyed: the dict has an 'order_modifier' key
OrderField(name, modifier, keyed, org) ==
    [field_name |-> name, order_modifier |-> modifier, keyed |-> keyed, org |-> org]

\* insert_field of _build_order_by_clause; list.remove raises ValueError when
\* no element equals {'field_name': name}
InsertField(acc, name) ==
    IF acc.error # "" THEN acc
    ELSE LET list == acc.list
             field == OrderField(name, "", FALSE, "catalog")
             matching == \E i \in DOMAIN list : list[i].field_name = name
             equal == {i \in DOMAIN list : list[i].field_name = name /\ ~list[i].keyed}
         IN IF ~matching THEN [acc EXCEPT !.list = InsertFront(list, field)]
            ELSE IF list[1].field_name = name THEN acc
            ELSE IF equal = {} THEN [acc EXCEPT !.error = "ValueError"]
            ELSE LET k == CHOOSE k \in equal : \A j \in equal : k <= j
                     rest == [j \in 1..(Len(list) - 1) |-> IF j < k THEN list[j] ELSE list[j + 1]]
                 IN [acc EXCEPT !.list = InsertFront(rest, field)]

\* the joined relations, highest related_index first: order_by('-related_index')
RECURSIVE ByIndexDescending(_)
ByIndexDescending(rels) ==
    IF rels = <<>> THEN <<>>
    ELSE LET k == CHOOSE k \in DOMAIN rels :
                     \A j \in DOMAIN rels :
                        \/ rels[k].related_index > rels[j].related_index
                        \/ (rels[k].related_index = rels[j].related_index /\ k <= j)
             rest == [j \in 1..(Len(rels) - 1) |-> IF j < k THEN rels[j] ELSE rels[j + 1]]
         IN <<rels[k]>> \o ByIndexDescending(rest)

RECURSIVE InsertAll(_, _)
InsertAll(acc, names) ==
    IF names = <<>> THEN acc ELSE InsertAll(InsertField(acc, Head(names)), Tail(names))

OrderLexemes(o) ==
    ExpandFields(<<Field(o.field_name, o.org)>>, TRUE)
    \o (IF o.order_modifier = "" THEN <<>>
        ELSE <<Lexeme("Keyword", o.order_modifier, o.org)>>)

\* FeatureServiceLayer._build_order_by_clause; related_tables: <<>> for None,
\* <<titles>> for a list
BuildOrderByClause(field_objs, related_tables) ==
    LET start == [list |-> field_objs, error |-> ""]
        joined == IF related_tables = <<>> THEN <<>>
                  ELSE ByIndexDescending(
                         SelectSeq(Relations,
                                   LAMBDA r : Contains(related_tables[1], r.related_title)))
        acc == IF related_tables = <<>>
               THEN IF field_objs = <<>> THEN InsertField(start, PRIMARY_KEY_NAME) ELSE start
               ELSE InsertAll(start, [i \in DOMAIN joined |-> joined[i].source_column])
        all_fields == IF acc.list = <<>> THEN ExpandFields(<<>>, FALSE)
                      ELSE JoinComma([i \in DOMAIN acc.list |-> OrderLexemes(acc.list[i])])
    IN [error |-> acc.error,
        lexemes |-> IF acc.error # "" THEN <<>>
                    ELSE <<Code("Keyword", "ORDER BY")>> \o all_fields]

(***************************************************************************)
(* The database's reading of the compiled statement.                       *)
(***************************************************************************)
\* a value of a column or an expression; SQL NULL has null = TRUE
Val(n) == [null |-> FALSE, n |-> n]
NullVal == [null |-> TRUE, n |-> 0]

\* three-valued logic: "T", "F", "U" (unknown)
Not3(a) == CASE a = "T" -> "F" [] a = "F" -> "T" [] OTHER -> "U"
And3(a, b) == IF a = "F" \/ b = "F" THEN "F" ELSE IF a = "T" /\ b = "T" THEN "T" ELSE "U"
Or3(a, b) == IF a = "T" \/ b = "T" THEN "T" ELSE IF a = "F" /\ b = "F" THEN "F" ELSE "U"
Eq3(a, b) == IF a.null \/ b.null THEN "U" ELSE IF a.n = b.n THEN "T" ELSE "F"
Le3(a, b) == IF a.null \/ b.null THEN "U" ELSE IF a.n <= b.n THEN "T" ELSE "F"

\* a timestamp cast to a date: the midnight that starts its day
DateCast(seconds) == seconds - (seconds % SecondsPerDay)

\* the number a numeric literal of the statement denotes
ParseNumber(s) ==
    CHOOSE n \in (0..(MaxRows + 3)) \cup {QUERY_LIMIT, QUERY_LIMIT + 1} : ToString(n) = s

\* the rows of FROM "table" AS "source" LEFT OUTER JOIN ...: each source row
\* with each matching related row (rel: its position), or with none (rel = 0)
JoinedRows(tbl, related_tables) ==
    LET rowsOf(i) ==
            IF related_tables = <<>> THEN <<[db_id |-> tbl[i].db_id, rel |-> 0]>>
            ELSE LET r == Relations[1]
                     hits == SelectSeq([k \in DOMAIN RelatedRows |-> k],
                                LAMBDA k : RelatedRows[k][r.target_column]
                                           = tbl[i][r.source_column])
                 IN IF hits = <<>> THEN <<[db_id |-> tbl[i].db_id, rel |-> 0]>>
                    ELSE [k \in DOMAIN hits |-> [db_id |-> tbl[i].db_id, rel |-> hits[k]]]
    IN Flatten([i \in DOMAIN tbl |-> rowsOf(i)])

SourceRow(tbl, id) == tbl[CHOOSE i \in DOMAIN tbl : tbl[i].db_id = id]

\* the value of "alias"."column" in a joined row
ColumnValue(tbl, jr, alias, column) ==
    IF alias = "source" THEN Val(SourceRow(tbl, jr.db_id)[column])
    ELSE IF jr.rel = 0 THEN NullVal
    ELSE Val(RelatedRows[jr.rel][column])

\* SELECT MIN(time_field) FROM "table"
MinOf(tbl, column) ==
    IF tbl = <<>> THEN NullVal
    ELSE Val(CHOOSE m \in {tbl[i][column] : i \in DOMAIN tbl} :
                \A i \in DOMAIN tbl : m <= tbl[i][column])

\* ST_Intersects(geometry, envelope)
Intersects(geom, env) ==
    IF geom = NullGeom THEN "U"
    ELSE IF /\ env.xmin <= geom[1] /\ geom[1] <= env.xmax
            /\ env.ymin <= geom[2] /\ geom[2] <= env.ymax
    THEN "T" ELSE "F"

\* the value a bound parameter takes in place of its placeholder
ParamValue(par, placeholder) ==
    IF par.kind = "time"
    THEN Val(IF placeholder.value = "%s::date" THEN DateCast(par.v) ELSE par.v)
    ELSE Val(ToInt(par.v))

IsKw(c, i, word) ==
    i <= Len(c.toks) /\ c.toks[i].ttype = "Keyword" /\ c.toks[i].value = word

\* an operand at lexeme i: a literal, a column, a placeholder, the MIN subquery
Operand(c, i, p) ==
    LET t == c.toks[i]
    IN CASE t.ttype = "Number" -> [v |-> Val(ParseNumber(t.value)), i |-> i + 1, p |-> p]
         [] t.ttype = "Placeholder" -> [v |-> ParamValue(c.params[p], t), i |-> i + 1, p |-> p + 1]
         [] t.ttype = "MinSubquery" -> [v |-> MinOf(c.tbl, t.value), i |-> i + 1, p |-> p]
         [] t.ttype = "Name" ->
              [v |-> ColumnValue(c.tbl, c.row, t.value, c.toks[i + 2].value),
               i |-> i + 3, p |-> p]

\* x IN (a, b, ...): the list after the opening parenthesis
RECURSIVE InList(_, _, _, _, _)
InList(c, x, i, p, acc) ==
    LET a == Operand(c, i, p)
        now == Or3(acc, Eq3(x, a.v))
    IN IF c.toks[a.i].value = ","
       THEN InList(c, x, a.i + 1, a.p, now)
       ELSE [v |-> now, i |-> a.i + 1, p |-> a.p]

RECURSIVE EvalOr(_, _, _)
RECURSIVE EvalAnd(_, _, _)
RECURSIVE EvalNot(_, _, _)
RECURSIVE OrRest(_, _)
RECURSIVE AndRest(_, _)

\* a predicate: ( expr ), ST_Intersects(...), a = b, a BETWEEN b AND c, a IN (...)
EvalPredicate(c, i, p) ==
    LET t == c.toks[i]
    IN IF t.ttype = "Punctuation" /\ t.value = "("
       THEN LET r == EvalOr(c, i + 1, p) IN [r EXCEPT !.i = r.i + 1]
       ELSE IF t.ttype = "Intersects"
       THEN [v |-> Intersects(SourceRow(c.tbl, c.row.db_id).dbasin_geom, c.params[p].v),
             i |-> i + 1, p |-> p + 1]
       ELSE LET a == Operand(c, i, p)
            IN IF IsKw(c, a.i, "BETWEEN")
               THEN LET lo == Operand(c, a.i + 1, a.p)
                        hi == Operand(c, lo.i + 1, lo.p)
                    IN [v |-> And3(Le3(lo.v, a.v), Le3(a.v, hi.v)), i |-> hi.i, p |-> hi.p]
               ELSE IF IsKw(c, a.i, "IN")
               THEN InList(c, a.v, a.i + 2, a.p, "F")
               ELSE LET b == Operand(c, a.i + 1, a.p)
                    IN [v |-> Eq3(a.v, b.v), i |-> b.i, p |-> b.p]

\* NOT binds tighter than AND, AND tighter than OR
EvalNot(c, i, p) ==
    IF IsKw(c, i, "NOT")
    THEN LET r == EvalNot(c, i + 1, p) IN [r EXCEPT !.v = Not3(r.v)]
    ELSE EvalPredicate(c, i, p)

AndRest(c, l) ==
    IF IsKw(c, l.i, "AND")
    THEN LET r == EvalNot(c, l.i + 1, l.p)
         IN AndRest(c, [r EXCEPT !.v = And3(l.v, r.v)])
    ELSE l

EvalAnd(c, i, p) == AndRest(c, EvalNot(c, i, p))

OrRest(c, l) ==
    IF IsKw(c, l.i, "OR")
    THEN LET r == EvalAnd(c, l.i + 1, l.p)
         IN OrRest(c, [r EXCEPT !.v = Or3(l.v, r.v)])
    ELSE l

EvalOr(c, i, p) == OrRest(c, EvalAnd(c, i, p))

\* whether the WHERE clause (lexeme 1 is the keyword WHERE) holds of a joined row
WhereHolds(tbl, jr, where_lexemes, params) ==
    EvalOr([toks |-> where_lexemes, params |-> params, tbl |-> tbl, row |-> jr], 2, 1).v = "T"

\* the table aliases a clause refers to: the names written before a dot
AliasesIn(lexemes) ==
    {lexemes[i].value : i \in {j \in DOMAIN lexemes :
        lexemes[j].ttype = "Name" /\ j < Len(lexemes) /\ IsDot(lexemes[j + 1])}}

\* the sort keys of an ORDER BY clause: alias, column, descending
RECURSIVE OrderKeys(_, _)
OrderKeys(lexemes, i) ==
    IF i > Len(lexemes) THEN <<>>
    ELSE IF lexemes[i].ttype = "Name"
    THEN LET desc == /\ i + 3 <= Len(lexemes)
                     /\ lexemes[i + 3].ttype = "Keyword"
                     /\ lexemes[i + 3].value \in {"DESC", "desc"}
         IN <<[alias |-> lexemes[i].value, column |-> lexemes[i + 2].value, desc |-> desc]>>
            \o OrderKeys(lexemes, i + 3)
    ELSE OrderKeys(lexemes, i + 1)

\* whether joined row a sorts strictly before b (NULLs last ascending, first
\* descending; geometries do not discriminate)
RECURSIVE SortsBefore(_, _, _, _)
SortsBefore(tbl, a, b, keys) ==
    IF keys = <<>> THEN FALSE
    ELSE LET k == Head(keys)
             va == ColumnValue(tbl, a, k.alias, k.column)
             vb == ColumnValue(tbl, b, k.alias, k.column)
             same == k.column = GEOM_FIELD_NAME
                     \/ (va.null /\ vb.null)
                     \/ (~va.null /\ ~vb.null /\ va.n = vb.n)
             less == IF va.null \/ vb.null THEN vb.null /\ ~va.null ELSE va.n < vb.n
         IN IF same THEN SortsBefore(tbl, a, b, Tail(keys))
            ELSE IF k.desc THEN ~less ELSE less

\* a stable sort of the joined rows by the keys
RECURSIVE SortRows(_, _, _)
SortRows(tbl, rows, keys) ==
    IF rows = <<>> THEN <<>>
    ELSE LET sorted == SortRows(tbl, SubSeq(rows, 1, Len(rows) - 1), keys)
             x == rows[Len(rows)]
             n == Cardinality({i \in DOMAIN sorted : ~SortsBefore(tbl, x, sorted[i], keys)})
         IN SubSeq(sorted, 1, n) \o <<x>> \o SubSeq(sorted, n + 1, Len(sorted))

\* SELECT DISTINCT "source"."db_id": one row for each object id
RECURSIVE DistinctIds(_)
DistinctIds(rows) ==
    IF rows = <<>> THEN <<>>
    ELSE LET init == DistinctIds(SubSeq(rows, 1, Len(rows) - 1))
             last == rows[Len(rows)]
         IN IF \E i \in DOMAIN init : init[i].db_id = last.db_id THEN init
            ELSE Append(init, [last EXCEPT !.rel = 0])

\* the rows of the statement before LIMIT and OFFSET are applied
Matching(q, tbl) ==
    LET joined == JoinedRows(tbl, q.related_tables)
        hits == SelectSeq(joined, LAMBDA jr : WhereHolds(tbl, jr, q.where, q.params))
    IN CASE q.mode = "count" -> <<[db_id |-> 0, rel |-> 0, count |-> Len(hits)]>>
         [] q.mode = "ids" ->
              LET ids == DistinctIds(SortRows(tbl, hits, OrderKeys(q.order, 1)))
              IN [i \in DOMAIN ids |-> [db_id |-> ids[i].db_id, rel |-> 0, count |-> 0]]
         [] OTHER ->
              LET sorted == SortRows(tbl, hits, OrderKeys(q.order, 1))
              IN [i \in DOMAIN sorted |->
                    [db_id |-> sorted[i].db_id, rel |-> sorted[i].rel, count |-> 0]]

\* the statement is rejected: it names a table it did not join, or a literal
\* of it is not a number
Rejected(q) ==
    \/ ~(AliasesIn(q.select \o q.where \o q.order) \subseteq ({"source"} \cup Range(q.related_tables)))
    \/ \E i \in DOMAIN q.select : q.select[i].ttype = "Number" /\ ~IsIntText(q.select[i].value)

\* rows from position m + 1 on, n of them at most (n = 0: all)
Window(rows, m, n) ==
    LET from == IF m >= Len(rows) THEN <<>> ELSE SubSeq(rows, m + 1, Len(rows))
    IN IF n > 0 /\ Len(from) > n THEN SubSeq(from, 1, n) ELSE from

\* cursor.execute(query_clause, query_params) and dictfetchall
Execute(q, tbl) ==
    IF Rejected(q) THEN [error |-> "DatabaseError", rows |-> <<>>]
    ELSE LET n == IF q.limit = <<>> THEN 0 ELSE ParseNumber(q.limit[2].value)
             m == IF q.offset = <<>> THEN 0 ELSE ParseNumber(q.offset[2].value)
         IN [error |-> "", rows |-> Window(Matching(q, tbl), m, n)]

(***************************************************************************)
(* perform_query, step by step.                                            *)
(***************************************************************************)
NoCall ==
    [limit |-> 0, offset |-> 0,
     sp |-> [additional_where_clause |-> "", start_time |-> <<>>, end_time |-> <<>>,
             out_sr |-> "", object_ids |-> <<>>, extent |-> <<>>,
             return_fields |-> <<>>, order_by_fields |-> <<>>,
             ids_only |-> FALSE, count_only |-> FALSE, return_geometry |-> TRUE]]

NoStatement ==
    [mode |-> "", select |-> <<>>, join |-> <<>>, related_tables |-> <<>>,
     where |-> <<>>, params |-> <<>>, order |-> <<>>, limit |-> <<>>, offset |-> <<>>]

NoResult == [status |-> "", error |-> "", fields |-> {}, data |-> <<>>, exceeded_limit |-> FALSE]

NoResponse == [status |-> 0, error |-> "", count |-> 0, exceeded |-> FALSE]

Raised(error, fields) == [NoResult EXCEPT !.status = "raised", !.error = error, !.fields = fields]

\* return_fields of perform_query: the caller's list, or ['*']
ReturnFields(sp) ==
    IF sp.return_fields = <<>> THEN <<Field("*", "code")>>
    ELSE FieldsOf(sp.return_fields, "outFields")

\* order_by_field_objs of perform_query
OrderByFieldObjs(sp) ==
    [i \in DOMAIN sp.order_by_fields |->
        LET m == OrderByMatch(sp.order_by_fields[i])
        IN OrderField(m.field_name, m.order_modifier, TRUE, "orderByFields")]

OrderByFieldNames(sp) ==
    LET objs == OrderByFieldObjs(sp) IN [i \in DOMAIN objs |-> objs[i].field_name]

\* a variant of the validation that admits related fields whether or not
\* object ids were supplied
ValidateQueryIncludingRelated(sp) ==
    LET v1 == ValidateFields(Range(NamesOf(ReturnFields(sp))), TRUE)
        v2 == ValidateFields(Range(OrderByFieldNames(sp)), TRUE)
        v3 == ValidateWhereClause(sp.additional_where_clause)
    IN IF ~sp.ids_only /\ v1.error # "" THEN v1
       ELSE IF ~sp.ids_only /\ v2.error # "" THEN v2
       ELSE v3

\* the validation of perform_query: the first error raised, or NoError
ValidateQuery(sp) ==
    LET include_related == sp.object_ids # <<>>
        v1 == ValidateFields(Range(NamesOf(ReturnFields(sp))), include_related)
        v2 == ValidateFields(Range(OrderByFieldNames(sp)), include_related)
        v3 == ValidateWhereClause(sp.additional_where_clause)
    IN IF ~sp.ids_only /\ v1.error # "" THEN v1
       ELSE IF ~sp.ids_only /\ v2.error # "" THEN v2
       ELSE v3

\* the select list of the data query
SelectFields(sp) ==
    IF sp.count_only THEN <<Code("Function", "COUNT(0)")>>
    ELSE IF sp.ids_only
    THEN <<Code("Keyword", "DISTINCT")>> \o AliasFields(<<Field(PRIMARY_KEY_NAME, "catalog")>>)
    ELSE LET given == ReturnFields(sp)
             return_fields == IF Contains(NamesOf(given), PRIMARY_KEY_NAME) THEN given
                              ELSE InsertFront(given, Field(PRIMARY_KEY_NAME, "catalog"))
             out_sr == IF sp.out_sr = ""
                       THEN Code("Number", ToString(WEB_MERCATOR_SRID))
                       ELSE Lexeme("Number", sp.out_sr, "outSR")
         IN ExpandFields(return_fields, FALSE)
            \o (IF sp.return_geometry
                THEN <<Comma, Code("Function", "ST_AsText(ST_Transform("),
                       Code("Name", "source"), Dot, Code("Name", GEOM_FIELD_NAME),
                       Comma, out_sr, Code("Punctuation", "))")>>
                ELSE <<>>)

\* return_fields as passed to _build_join_clause
JoinFields(sp) ==
    IF sp.count_only THEN <<>>
    ELSE IF sp.ids_only THEN <<Field(PRIMARY_KEY_NAME, "catalog")>>
    ELSE LET given == ReturnFields(sp)
         IN IF Contains(NamesOf(given), PRIMARY_KEY_NAME) THEN given
            ELSE InsertFront(given, Field(PRIMARY_KEY_NAME, "catalog"))

\* a variant of the LIMIT clause that asks for limit rows, not limit + 1
LimitClauseWithoutExtraRow(limit) ==
    IF limit = 0 THEN <<>>
    ELSE <<Code("Keyword", "LIMIT"), Lexeme("Number", ToString(limit), "limit")>>

\* '' if limit == 0 else 'LIMIT {limit}'.format(limit=limit + 1)
LimitClause(limit) ==
    IF limit = 0 THEN <<>>
    ELSE <<Code("Keyword", "LIMIT"), Lexeme("Number", ToString(limit + 1), "limit")>>

\* '' if offset == 0 else 'OFFSET {offset}'.format(offset=offset)
OffsetClause(offset) ==
    IF offset = 0 THEN <<>>
    ELSE <<Code("Keyword", "OFFSET"), Lexeme("Number", ToString(offset), "offset")>>

\* the statement perform_query composes, or the error composing it raises
Compile(limit, offset, sp, time_field) ==
    LET where == sp.additional_where_clause
        composed(join, built, order) ==
            [error |-> order.error,
             statement |->
               [mode |-> IF sp.count_only THEN "count"
                         ELSE IF sp.ids_only THEN "ids" ELSE "rows",
                select |-> SelectFields(sp),
                join |-> join.lexemes,
                related_tables |-> join.related_tables,
                where |-> built.lexemes,
                params |-> built.params,
                order |-> order.lexemes,
                limit |-> LimitClause(limit),
                offset |-> OffsetClause(offset)]]
        joined(join) ==
            composed(join,
                     BuildWhereClause(where, sp.count_only, sp, time_field),
                     IF sp.count_only THEN [error |-> "", lexemes |-> <<>>]
                     ELSE BuildOrderByClause(OrderByFieldObjs(sp),
                            IF sp.ids_only THEN <<>> ELSE <<join.related_tables>>))
    IN joined(BuildJoinClause(JoinFields(sp), where))

\* the text of a statement: 'SELECT {fields} FROM "{table}" AS "source" ...'
SqlText(q) ==
    <<Code("Keyword", "SELECT")>> \o q.select
    \o <<Code("Keyword", "FROM"), Lexeme("Name", TableName, "catalog"),
         Code("Keyword", "AS"), Code("Name", "source")>>
    \o q.join \o q.where \o q.order \o q.limit \o q.offset

\* Extent(dict) asserts extent.has_key("spatialReference"); a Python 3 dict
\* has no has_key, so the assert raises AttributeError (FALSE) unless the
\* interpreter runs with assertions compiled out (TRUE)
ExtentOutcomes(r) == IF r.geometryType = "esriGeometryEnvelope" THEN BOOLEAN ELSE {TRUE}

\* QueryView.handle_request up to the call of perform_query
HandleRequest ==
    /\ pc = "idle"
    /\ \E r \in Requests : \E built \in ExtentOutcomes(r) :
        LET return_format == IF r.f = "csv" THEN "csv" ELSE "json"
            return_ids_only == return_format = "json" /\ r.returnIdsOnly = "true"
            return_count_only == ~return_ids_only /\ r.returnCountOnly = "true"
            object_ids == CommaSplit(r.objectIds)
            skip_limit == return_ids_only \/ object_ids # <<>>
            limit == IF skip_limit THEN 0
                     ELSE IF r.limit = "" THEN QUERY_LIMIT ELSE ToInt(r.limit)
            offset == IF skip_limit THEN 0
                      ELSE IF r.offset = "" THEN 0 ELSE ToInt(r.offset)
            times == CommaSplit(r.time)
            supported == r.geometryType \in {"", "esriGeometryEnvelope"}
            sp == [additional_where_clause |-> r.where,
                   start_time |-> IF r.time = "" THEN <<>>
                                  ELSE <<ToInt(times[1]) \div MillisPerSecond>>,
                   end_time |-> IF r.time = "" THEN <<>>
                                ELSE <<ToInt(times[2]) \div MillisPerSecond>>,
                   out_sr |-> r.outSR,
                   object_ids |-> object_ids,
                   extent |-> IF r.geometryType = "esriGeometryEnvelope"
                              THEN <<EnvelopeOf(r.geometry)>> ELSE <<>>,
                   return_fields |-> IF return_ids_only THEN <<>> ELSE CommaSplit(r.outFields),
                   order_by_fields |-> IF return_ids_only THEN <<>>
                                       ELSE CommaSplit(r.orderByFields),
                   ids_only |-> return_ids_only,
                   count_only |-> return_count_only,
                   return_geometry |-> ~return_ids_only
                                       /\ (return_count_only \/ r.returnGeometry # "false")]
        IN /\ req' = r
           /\ executed' = <<>>
           /\ compiled' = NoStatement
           /\ result' = NoResult
           /\ IF ~supported
              THEN /\ call' = NoCall
                   /\ response' = [NoResponse EXCEPT !.status = 400,
                                                     !.error = "Unsupported geometryType"]
                   /\ pc' = "done"
              ELSE IF built
              THEN /\ call' = [limit |-> limit, offset |-> offset, sp |-> sp]
                   /\ response' = NoResponse
                   /\ pc' = "validate"
              ELSE /\ call' = NoCall
                   /\ response' = [NoResponse EXCEPT !.status = 500,
                                                     !.error = "AttributeError"]
                   /\ pc' = "done"
    /\ UNCHANGED <<layer, table>>

\* a variant of perform_query that sends the statement before it validates
PerformQueryValidateAfterSending ==
    /\ pc = "validate"
    /\ LET v == ValidateQuery(call.sp)
           c == Compile(Max(call.limit, 0), Max(call.offset, 0), call.sp,
                        layer.start_time_field)
       IN /\ call' = [call EXCEPT !.limit = Max(call.limit, 0), !.offset = Max(call.offset, 0)]
          /\ executed' = Append(executed, c.statement)
          /\ IF v.error # ""
             THEN /\ result' = Raised(v.error, v.fields)
                  /\ pc' = "respond"
             ELSE /\ result' = result
                  /\ pc' = "build"
    /\ UNCHANGED <<layer, table, req, compiled, response>>

\* perform_query: normalisation and validation of the inputs
PerformQueryValidate ==
    /\ pc = "validate"
    /\ LET v == ValidateQuery(call.sp)
       IN /\ call' = [call EXCEPT !.limit = Max(call.limit, 0), !.offset = Max(call.offset, 0)]
          /\ IF v.error # ""
             THEN /\ result' = Raised(v.error, v.fields)
                  /\ pc' = "respond"
             ELSE /\ result' = result
                  /\ pc' = "build"
    /\ UNCHANGED <<layer, table, req, compiled, executed, response>>

\* perform_query: SELECT, JOIN, WHERE and ORDER BY are built from the inputs
PerformQueryBuild ==
    /\ pc = "build"
    /\ \E c \in {Compile(call.limit, call.offset, call.sp, layer.start_time_field)} :
          IF c.error # ""
          THEN /\ result' = Raised(c.error, {})
               /\ compiled' = compiled
               /\ pc' = "respond"
          ELSE /\ compiled' = c.statement
               /\ result' = result
               /\ pc' = "execute"
    /\ UNCHANGED <<layer, table, req, call, executed, response>>

\* perform_query: the statement is executed and the limit applied
PerformQueryExecute ==
    /\ pc = "execute"
    /\ executed' = Append(executed, compiled)
    /\ \E got \in {Execute(compiled, table)} :
       LET queried_data == got.rows
           limited_data == 0 < call.limit /\ call.limit < Len(queried_data)
       IN result' =
            IF got.error # "" THEN Raised(got.error, {})
            ELSE [NoResult EXCEPT
                    !.status = "returned",
                    !.data = IF limited_data
                             THEN SubSeq(queried_data, 1, Len(queried_data) - 1)
                             ELSE queried_data,
                    !.exceeded_limit = limited_data]
    /\ pc' = "respond"
    /\ UNCHANGED <<layer, table, req, call, compiled, response>>

ValidationErrors == {"InvalidFieldsError", "RelatedFieldsError", "InvalidSQLError"}

\* QueryView.handle_request after perform_query returned or raised
Respond ==
    /\ pc = "respond"
    /\ response' =
         IF result.status = "raised"
         THEN IF result.error \in ValidationErrors
              THEN [NoResponse EXCEPT !.status = 400, !.error = result.error]
              ELSE IF result.error = "DatabaseError"
              THEN [NoResponse EXCEPT !.status = 400, !.error = "Invalid request"]
              ELSE [NoResponse EXCEPT !.status = 500, !.error = result.error]
         ELSE IF call.sp.count_only /\ result.data = <<>>
         THEN [NoResponse EXCEPT !.status = 500, !.error = "IndexError"]
         ELSE IF call.sp.count_only /\ req.f = "csv"
         THEN \* data is the count row, a dict: data.getvalue() raises
              [NoResponse EXCEPT !.status = 500, !.error = "AttributeError"]
         ELSE [NoResponse EXCEPT !.status = 200, !.count = Len(result.data),
                                 !.exceeded = result.exceeded_limit]
    /\ pc' = "done"
    /\ UNCHANGED <<layer, table, req, call, compiled, executed, result>>

QueryInit ==
    /\ layer \in {LayerRow(""), LayerRow("obs_date")}
    /\ table \in {SampleTable(n) : n \in 0..MaxRows}
    /\ pc = "idle"
    /\ req = NoRequest
    /\ call = NoCall
    /\ compiled = NoStatement
    /\ executed = <<>>
    /\ result = NoResult
    /\ response = NoResponse

QueryNext ==
    \/ HandleRequest
    \/ PerformQueryValidate
    \/ PerformQueryBuild
    \/ PerformQueryExecute
    \/ Respond

QuerySpec == QueryInit /\ [][QueryNext]_vars

(***************************************************************************)
(* The mutation path: add_feature, update_feature, delete_feature.         *)
(***************************************************************************)
MaxAttrValue == 2   \* attribute values a client sends: 1..MaxAttrValue

DefaultWkid == 3857

SystemCols == {PRIMARY_KEY_NAME, GEOM_FIELD_NAME}

\* the names of c.description after 'SELECT * from table LIMIT 0'
Description == TableColumns

\* the columns get_fields reports as esriFieldTypeDate
DateFields == {"obs_date"}

\* the attribute keys a client may send
AttributeKeys == Range(TableColumns) \cup {"bogus_col"}

\* the value a client sends under a key: a date is sent in milliseconds
AttributeValue(key, v) == IF key \in DateFields THEN v * MillisPerSecond ELSE v

\* feature['attributes']: a mapping from the keys sent to their values
AttributeMaps ==
    UNION { IF PRIMARY_KEY_NAME \in keys
            THEN { [k \in keys |-> IF k = PRIMARY_KEY_NAME THEN pk ELSE AttributeValue(k, v)]
                     : pk \in 1..(MaxRows + 1), v \in 1..MaxAttrValue }
            ELSE { [k \in keys |-> AttributeValue(k, v)] : v \in 1..MaxAttrValue }
          : keys \in SUBSET AttributeKeys }

\* feature['geometry']: absent (<<>>) or an Esri point; coordinates and wkid
\* are kept as the text the JSON carries them in ("" for no spatialReference)
Geometries ==
    {<<>>} \cup { <<[x |-> x, y |-> "1", wkid |-> w]>> : x \in {"0", "0')"}, w \in {"", "3857"} }

Features == { [attributes |-> a, geometry |-> g] : a \in AttributeMaps, g \in Geometries }

\* wkt.from_esri_feature for a point layer
FromEsriFeature(feature, geom_type) ==
    LET srid == "SRID=" \o (IF feature.wkid = "" THEN ToString(DefaultWkid) ELSE feature.wkid)
                \o ";"
    IN srid \o "POINT(" \o feature.x \o " " \o feature.y \o ")"

\* a statement handed to cursor.execute: its text and its parameters
Statement(kind, text, params) == [kind |-> kind, text |-> text, params |-> params]

\* 'SELECT * from {table} LIMIT 0'
DescribeCommand ==
    Statement("SELECT",
              <<Code("Keyword", "SELECT"), Code("Wildcard", "*"), Code("Keyword", "from"),
                Lexeme("Name", TableName, "catalog"), Code("Keyword", "LIMIT"),
                Code("Number", "0")>>,
              <<>>)

\* ','.join of names, each a lexeme of the given origin
NameList(names, org) == JoinComma([i \in DOMAIN names |-> <<Lexeme("Name", names[i], org)>>])

\* 'INSERT INTO {table} ({names}) VALUES ({placeholders}) RETURNING {pk}'
InsertCommand(colnames, values) ==
    Statement("INSERT",
              <<Code("Keyword", "INSERT INTO"), Lexeme("Name", TableName, "catalog"),
                Code("Punctuation", "(")>>
              \o NameList(colnames, "catalog")
              \o <<Code("Punctuation", ")"), Code("Keyword", "VALUES"), Code("Punctuation", "(")>>
              \o Placeholders(Len(colnames))
              \o <<Code("Punctuation", ")"), Code("Keyword", "RETURNING"),
                   Code("Name", PRIMARY_KEY_NAME)>>,
              values)

\* "UPDATE {table} SET dbasin_geom = ST_Transform(ST_GeomFromEWKT('{geom}'), {srid}) WHERE db_id=%s"
SetGeomCommand(geometry, lyr, pk_param) ==
    Statement("UPDATE",
              <<Code("Keyword", "UPDATE"), Lexeme("Name", TableName, "catalog"),
                Code("Keyword", "SET"), Code("Name", GEOM_FIELD_NAME), Code("Comparison", "="),
                Code("Function", "ST_Transform(ST_GeomFromEWKT("),
                Lexeme("String", FromEsriFeature(geometry, lyr.geometry_type), "geometry"),
                Code("Punctuation", ")"), Comma,
                Lexeme("Number", ToString(lyr.srid), "catalog"), Code("Punctuation", ")"),
                Code("Keyword", "WHERE"), Code("Name", PRIMARY_KEY_NAME),
                Code("Comparison", "="), Placeholder>>,
              <<pk_param>>)

\* 'UPDATE {table} SET {k1} = %s,{k2} = %s WHERE db_id=%s'
UpdateCommand(keys, values) ==
    Statement("UPDATE",
              <<Code("Keyword", "UPDATE"), Lexeme("Name", TableName, "catalog"),
                Code("Keyword", "SET")>>
              \o JoinComma([i \in DOMAIN keys |->
                              <<Lexeme("Name", keys[i], "attributes"),
                                Code("Comparison", "="), Placeholder>>])
              \o <<Code("Keyword", "WHERE"), Code("Name", PRIMARY_KEY_NAME),
                   Code("Comparison", "="), Placeholder>>,
              values)

\* 'DELETE FROM {table} WHERE db_id=%s'
DeleteCommand(primary_key) ==
    Statement("DELETE",
              <<Code("Keyword", "DELETE FROM"), Lexeme("Name", TableName, "catalog"),
                Code("Keyword", "WHERE"), Code("Name", PRIMARY_KEY_NAME),
                Code("Comparison", "="), Placeholder>>,
              <<Param("primary_key", primary_key)>>)

\* str.lower() of a column name
Lower(s) ==
    CASE s = "Site" -> "site"
      [] s = "Depth" -> "depth"
      [] OTHER -> s

\* the order in which the keys of feature['attributes'] are visited
KeyOrder(attributes) ==
    SelectSeq(TableColumns \o <<"bogus_col">>, LAMBDA k : k \in DOMAIN attributes)

\* the value appended for an attribute: a date sent as a number of
\* milliseconds becomes datetime.fromtimestamp(value / 1000)
ValueFor(attributes, name) ==
    IF name \in DateFields /\ attributes[name] # 0
    THEN attributes[name] \div MillisPerSecond
    ELSE attributes[name]

MaxCoord == 1       \* coordinates the database reads from a well-formed point

\* ST_GeomFromEWKT of the text between the quotes: the point, or <<>> when the
\* text is not the EWKT of a point
ReadEwkt(text) ==
    LET points == { g \in (0..MaxCoord) \X (0..MaxCoord) :
                      text = "SRID=" \o ToString(WEB_MERCATOR_SRID) \o ";POINT("
                             \o ToString(g[1]) \o " " \o ToString(g[2]) \o ")" }
    IN IF points = {} THEN <<>> ELSE <<CHOOSE g \in points : TRUE>>

\* the next value of the primary key's serial
NextSerial(tbl) ==
    LET ids == {tbl[i].db_id : i \in DOMAIN tbl}
    IN IF ids = {} THEN 1 ELSE 1 + CHOOSE m \in ids : \A n \in ids : n <= m

\* the effect of the INSERT: a new row, its geometry not yet set
RunInsert(tbl, colnames, values) ==
    Append(tbl,
           [c \in Range(TableColumns) |->
              IF c = PRIMARY_KEY_NAME THEN NextSerial(tbl)
              ELSE IF c = GEOM_FIELD_NAME THEN NullGeom
              ELSE values[CHOOSE i \in DOMAIN colnames : colnames[i] = c].v])

\* the effect of UPDATE ... SET k = %s, ... WHERE db_id = %s
RunUpdate(tbl, keys, values) ==
    LET pk == values[Len(values)].v
    IN [i \in DOMAIN tbl |->
          IF tbl[i].db_id # pk THEN tbl[i]
          ELSE [c \in Range(TableColumns) |->
                  IF \E j \in DOMAIN keys : keys[j] = c
                  THEN values[CHOOSE j \in DOMAIN keys : keys[j] = c].v
                  ELSE tbl[i][c]]]

\* the effect of UPDATE ... SET dbasin_geom = ... WHERE db_id = %s
RunSetGeom(tbl, point, pk) ==
    [i \in DOMAIN tbl |->
        IF tbl[i].db_id = pk THEN [tbl[i] EXCEPT !.dbasin_geom = point] ELSE tbl[i]]

\* the effect of DELETE FROM ... WHERE db_id = %s
RunDelete(tbl, pk) == SelectSeq(tbl, LAMBDA r : r.db_id # pk)

EditRaised(error, names) ==
    [NoResult EXCEPT !.status = "raised", !.error = error, !.data = names]

EditReturned(primary_key) ==
    [NoResult EXCEPT !.status = "returned", !.data = <<primary_key>>]

Outcome(statements, res, tbl) == [executed |-> statements, result |-> res, table |-> tbl]

\* the text interpolated between the quotes of a geometry statement
EwktOf(statement) ==
    statement.text[CHOOSE i \in DOMAIN statement.text : statement.text[i].ttype = "String"].value

\* a variant in which the failed geometry statement undoes the attribute
\* statement that preceded it
AfterFailedGeometryRolledBack(before, after) == before

\* the table once the geometry UPDATE has failed: both statements run on a
\* cursor of the autocommit connection, outside any transaction.atomic(), so
\* the attribute statement that succeeded before it stays committed
AfterFailedGeometry(before, after) == after

\* a variant of the missing-column list that stops at the first missing column
FirstColumnNotPresent(colnames_in_table, columns_in_request) ==
    LET missing == SelectSeq(colnames_in_table, LAMBDA c : c \notin columns_in_request)
    IN IF missing = <<>> THEN <<>> ELSE <<missing[1]>>

\* columns_not_present of add_feature: the table's columns the request lacks
ColumnsNotPresent(colnames_in_table, columns_in_request) ==
    SelectSeq(colnames_in_table, LAMBDA c : c \notin columns_in_request)

\* FeatureServiceLayer.add_feature: the statements executed, the value
\* returned or the error raised, and the table afterwards
AddFeatureOutcome(tbl, lyr, feature) ==
    LET colnames_in_table ==
            LET kept == SelectSeq(Description, LAMBDA c : c \notin SystemCols)
            IN [i \in DOMAIN kept |-> Lower(kept[i])]
        columns_in_request == DOMAIN feature.attributes \ SystemCols
        columns_not_present == ColumnsNotPresent(colnames_in_table, columns_in_request)
        described == <<DescribeCommand>>
    IN IF columns_in_request \ Range(colnames_in_table) # {}
       THEN Outcome(described, EditRaised("attributes do not match", <<>>), tbl)
       ELSE IF columns_not_present # <<>>
       THEN Outcome(described, EditRaised("Missing attributes", columns_not_present), tbl)
       ELSE IF feature.geometry = <<>>
               \/ \E i \in DOMAIN colnames_in_table :
                     colnames_in_table[i] \notin DOMAIN feature.attributes
       THEN Outcome(described, EditRaised("KeyError", <<>>), tbl)
       ELSE LET values == [i \in DOMAIN colnames_in_table |->
                             Param("attributes", ValueFor(feature.attributes, colnames_in_table[i]))]
                insert == InsertCommand(colnames_in_table, values)
                primary_key == NextSerial(tbl)
                inserted == RunInsert(tbl, colnames_in_table, values)
                set_geom == SetGeomCommand(feature.geometry[1], lyr, Param("returning", primary_key))
                point == ReadEwkt(EwktOf(set_geom))
                statements == described \o <<insert, set_geom>>
            IN IF point = <<>>
               THEN Outcome(statements, EditRaised("DatabaseError", <<>>),
                            AfterFailedGeometry(tbl, inserted))
               ELSE Outcome(statements, EditReturned(primary_key),
                            RunSetGeom(inserted, point[1], primary_key))

\* a variant of the SET list that does not leave the primary key out
ArgumentKeysWithPrimaryKey(attributes) ==
    SelectSeq(KeyOrder(attributes), LAMBDA k : k # GEOM_FIELD_NAME)

\* the keys update_feature writes into the SET list of its UPDATE
ArgumentKeys(attributes) ==
    SelectSeq(KeyOrder(attributes), LAMBDA k : k # PRIMARY_KEY_NAME /\ k # GEOM_FIELD_NAME)

\* FeatureServiceLayer.update_feature
UpdateFeatureOutcome(tbl, lyr, feature) ==
    LET colnames_in_table == [i \in DOMAIN Description |-> Lower(Description[i])]
        attributes == feature.attributes
        visited == SelectSeq(KeyOrder(attributes), LAMBDA k : k # PRIMARY_KEY_NAME)
        keys == ArgumentKeys(attributes)
        described == <<DescribeCommand>>
    IN IF PRIMARY_KEY_NAME \notin DOMAIN attributes
       THEN Outcome(described,
                    EditRaised("Cannot update feature without a primary key", <<>>), tbl)
       ELSE IF \E i \in DOMAIN visited : ~Contains(colnames_in_table, visited[i])
       THEN Outcome(described, EditRaised("attributes do not match", <<>>), tbl)
       ELSE LET primary_key == attributes[PRIMARY_KEY_NAME]
                argument_values ==
                    [i \in DOMAIN keys |-> Param("attributes", ValueFor(attributes, keys[i]))]
                    \o <<Param("attributes", primary_key)>>
                update == UpdateCommand(keys, argument_values)
            IN IF keys = <<>>
               THEN Outcome(described \o <<update>>, EditRaised("DatabaseError", <<>>), tbl)
               ELSE LET updated == RunUpdate(tbl, keys, argument_values)
                    IN IF feature.geometry = <<>>
                       THEN Outcome(described \o <<update>>, EditReturned(primary_key), updated)
                       ELSE LET set_geom == SetGeomCommand(feature.geometry[1], lyr,
                                                           Param("attributes", primary_key))
                                point == ReadEwkt(EwktOf(set_geom))
                                statements == described \o <<update, set_geom>>
                            IN IF point = <<>>
                               THEN Outcome(statements, EditRaised("DatabaseError", <<>>),
                                            AfterFailedGeometry(tbl, updated))
                               ELSE Outcome(statements, EditReturned(primary_key),
                                            RunSetGeom(updated, point[1], primary_key))

\* FeatureServiceLayer.delete_feature
DeleteFeatureOutcome(tbl, primary_key) ==
    Outcome(<<DeleteCommand(primary_key)>>, EditReturned(primary_key),
            RunDelete(tbl, primary_key))

NoEdit == [op |-> "", feature |-> [attributes |-> <<>>, geometry |-> <<>>], primary_key |-> 0]

Finish(edit, o) ==
    /\ pc = "idle"
    /\ req' = edit
    /\ executed' = o.executed
    /\ result' = o.result
    /\ table' = o.table
    /\ pc' = "done"
    /\ UNCHANGED <<layer, call, compiled, response>>

AddFeature ==
    \E feature \in Features :
        Finish([NoEdit EXCEPT !.op = "add", !.feature = feature],
               AddFeatureOutcome(table, layer, feature))

UpdateFeature ==
    \E feature \in Features :
        Finish([NoEdit EXCEPT !.op = "update", !.feature = feature],
               UpdateFeatureOutcome(table, layer, feature))

DeleteFeature ==
    \E primary_key \in 1..(MaxRows + 1) :
        Finish([NoEdit EXCEPT !.op = "delete", !.primary_key = primary_key],
               DeleteFeatureOutcome(table, primary_key))

EditInit ==
    /\ layer = LayerRow("")
    /\ table \in {SampleTable(n) : n \in 0..MaxRows}
    /\ pc = "idle"
    /\ req = NoEdit
    /\ call = NoCall
    /\ compiled = NoStatement
    /\ executed = <<>>
    /\ result = NoResult
    /\ response = NoResponse

EditNext ==
    \/ AddFeature
    \/ UpdateFeature
    \/ DeleteFeature

EditSpec == EditInit /\ [][EditNext]_vars

(***************************************************************************)
(* FeatureServiceResource.apply_edits: a batch of adds, updates, deletes.  *)
(***************************************************************************)
MaxBatch == 2       \* adds, updates and deletes of one batch: 0..MaxBatch each

\* FeatureServiceLayer.supports_time: set for the layers with a time field
SupportsTime(lyr) == lyr.start_time_field # ""

\* FeatureServiceLayer.get_raw_time_extent: [min, max] in milliseconds; MIN
\* and MAX of an empty table are NULL and x.timetuple() of None raises
\* AttributeError (<<>>)
RawTimeExtent(tbl, lyr) ==
    IF tbl = <<>> THEN <<>>
    ELSE LET dates == {tbl[i][lyr.start_time_field] : i \in DOMAIN tbl}
         IN << <<(CHOOSE m \in dates : \A d \in dates : m <= d) * MillisPerSecond,
                 (CHOOSE m \in dates : \A d \in dates : d <= m) * MillisPerSecond>> >>

\* the features a batch adds: a point and the columns of the table, or all
\* but one of them
BatchAdds ==
    { f \in Features :
        /\ f.geometry # <<>> /\ f.geometry[1].wkid = "3857"
        /\ {"site", "obs_date"} \subseteq DOMAIN f.attributes
        /\ DOMAIN f.attributes \subseteq {"site", "depth", "obs_date"}
        /\ f.attributes["site"] = 1 }

\* the features a batch updates: the site of row 1 and its point, with or
\* without the primary key
BatchUpdates ==
    { f \in Features :
        /\ f.geometry # <<>> /\ f.geometry[1].wkid = "3857"
        /\ "site" \in DOMAIN f.attributes
        /\ DOMAIN f.attributes \subseteq {PRIMARY_KEY_NAME, "site"}
        /\ f.attributes["site"] = MaxAttrValue
        /\ PRIMARY_KEY_NAME \in DOMAIN f.attributes => f.attributes[PRIMARY_KEY_NAME] = 1 }

\* the entries of str(delete_list).split(',')
BatchDeletes == {"1", "x"}

SeqsUpTo(S, n) == UNION { [1..k -> S] : k \in 0..n }

\* request.POST of apply_edits: adds, updates and deletes
Batches ==
    { [adds |-> a, updates |-> u, deletes |-> d] :
        a \in SeqsUpTo(BatchAdds, MaxBatch), u \in SeqsUpTo(BatchUpdates, MaxBatch),
        d \in SeqsUpTo(BatchDeletes, MaxBatch) }

NoBatch == [adds |-> <<>>, updates |-> <<>>, deletes |-> <<>>]

NoEditsCall == [i |-> 1, original_time_extent |-> <<>>]

NoEditsResponse ==
    [status |-> 0, error |-> "", addResults |-> <<>>, updateResults |-> <<>>,
     deleteResults |-> <<>>, new_time_extent |-> <<>>]

\* one entry of addResults, updateResults or deleteResults; text is str(e),
\* formatted into the description after the prefix
ResultItem(prefix, res) ==
    IF res.status = "returned"
    THEN [success |-> TRUE, objectId |-> res.data, description |-> "", text |-> ""]
    ELSE [success |-> FALSE, objectId |-> <<>>, description |-> prefix, text |-> res.error]

\* the loop apply_edits enters next: the first non-empty list from position k
LoopFrom(batch, k) ==
    IF k <= 1 /\ batch.adds # <<>> THEN "adds"
    ELSE IF k <= 2 /\ batch.updates # <<>> THEN "updates"
    ELSE IF k <= 3 /\ batch.deletes # <<>> THEN "deletes"
    ELSE "respond"

\* delete_feature for an entry of the deletes list: a text that is no integer
\* makes the DELETE fail in the database
DeleteEntryOutcome(tbl, entry) ==
    IF IsIntText(entry) THEN DeleteFeatureOutcome(tbl, ToInt(entry))
    ELSE Outcome(<<DeleteCommand(entry)>>, EditRaised("DatabaseError", <<>>), tbl)

\* apply_edits up to its first loop: the request is read and, for a layer
\* that supports time, the time extent is taken
ApplyEditsBegin ==
    /\ pc = "idle"
    /\ \E batch \in Batches :
        \E original \in {IF SupportsTime(layer) THEN RawTimeExtent(table, layer) ELSE <<>>} :
            /\ req' = batch
            /\ IF SupportsTime(layer) /\ original = <<>>
               THEN /\ response' = [NoEditsResponse EXCEPT !.status = 500,
                                                           !.error = "AttributeError"]
                    /\ call' = NoEditsCall
                    /\ pc' = "done"
               ELSE /\ response' = NoEditsResponse
                    /\ call' = [NoEditsCall EXCEPT !.original_time_extent = original]
                    /\ pc' = LoopFrom(batch, 1)
    /\ UNCHANGED <<layer, table, compiled, executed, result>>

\* the bookkeeping of one loop iteration: the statements executed, the table
\* left behind, and the loop or position that follows
Iterated(o, list, k) ==
    /\ executed' = executed \o o.executed
    /\ result' = o.result
    /\ table' = o.table
    /\ IF call.i < Len(list)
       THEN /\ call' = [call EXCEPT !.i = call.i + 1]
            /\ pc' = pc
       ELSE /\ call' = [call EXCEPT !.i = 1]
            /\ pc' = LoopFrom(req, k + 1)
    /\ UNCHANGED <<layer, req, compiled>>

\* one iteration of 'for feature in adds'
ApplyAdd ==
    /\ pc = "adds"
    /\ \E o \in {AddFeatureOutcome(table, layer, req.adds[call.i])} :
        /\ response' = [response EXCEPT !.addResults =
                          Append(@, ResultItem("Error adding feature: ", o.result))]
        /\ Iterated(o, req.adds, 1)

\* one iteration of 'for feature in updates'
ApplyUpdate ==
    /\ pc = "updates"
    /\ \E o \in {UpdateFeatureOutcome(table, layer, req.updates[call.i])} :
        /\ response' = [response EXCEPT !.updateResults =
                          Append(@, ResultItem("Error updating feature: ", o.result))]
        /\ Iterated(o, req.updates, 2)

\* one iteration of 'for object_id in deletes'
ApplyDelete ==
    /\ pc = "deletes"
    /\ \E o \in {DeleteEntryOutcome(table, req.deletes[call.i])} :
        /\ response' = [response EXCEPT !.deleteResults =
                          Append(@, ResultItem("Error deleting feature: ", o.result))]
        /\ Iterated(o, req.deletes, 3)

\* apply_edits after its loops: the time extent is taken again and the
\* response is created
ApplyEditsRespond ==
    /\ pc = "respond"
    /\ \E new \in {IF call.original_time_extent # <<>> THEN RawTimeExtent(table, layer)
                   ELSE <<>>} :
        response' =
            IF call.original_time_extent # <<>> /\ new = <<>>
            THEN [NoEditsResponse EXCEPT !.status = 500, !.error = "AttributeError"]
            ELSE [response EXCEPT
                    !.status = 200,
                    !.new_time_extent =
                        IF call.original_time_extent # <<>> /\ new # call.original_time_extent
                        THEN new ELSE <<>>]
    /\ pc' = "done"
    /\ UNCHANGED <<layer, table, req, call, compiled, executed, result>>

ApplyEditsInit ==
    /\ layer \in {LayerRow(""), LayerRow("obs_date")}
    /\ table \in {SampleTable(n) : n \in 0..MaxRows}
    /\ pc = "idle"
    /\ req = NoBatch
    /\ call = NoEditsCall
    /\ compiled = NoStatement
    /\ executed = <<>>
    /\ result = NoResult
    /\ response = NoEditsResponse

ApplyEditsNext ==
    \/ ApplyEditsBegin
    \/ ApplyAdd
    \/ ApplyUpdate
    \/ ApplyDelete
    \/ ApplyEditsRespond

ApplyEditsSpec == ApplyEditsInit /\ [][ApplyEditsNext]_vars

(***************************************************************************)
(* Concurrent update_feature calls, one statement at a time.               *)
(***************************************************************************)
\* the requests being served at the same time
Callers == {1, 2}

\* the features the concurrent calls send: attributes and a point for row 1
ConcurrentFeatures ==
    { [attributes |-> [k \in {PRIMARY_KEY_NAME, "site", "depth"} |->
                         IF k = PRIMARY_KEY_NAME THEN 1 ELSE v],
       geometry |-> <<[x |-> ToString(c), y |-> "1", wkid |-> ToString(WEB_MERCATOR_SRID)]>>] :
        v \in 1..MaxAttrValue, c \in 0..MaxCoord }

\* the attribute UPDATE of update_feature for a feature
AttributeUpdate(feature) ==
    LET keys == ArgumentKeys(feature.attributes)
    IN UpdateCommand(keys,
                     [i \in DOMAIN keys |->
                        Param("attributes", ValueFor(feature.attributes, keys[i]))]
                     \o <<Param("attributes", feature.attributes[PRIMARY_KEY_NAME])>>)

\* update_feature is called: the table is described and the keys are checked
CallUpdateFeature(p) ==
    /\ pc[p] = "idle"
    /\ \E feature \in ConcurrentFeatures :
        /\ req' = [req EXCEPT ![p] = feature]
        /\ executed' = Append(executed, DescribeCommand)
        /\ pc' = [pc EXCEPT ![p] = "attributes"]
    /\ UNCHANGED <<layer, table, call, compiled, result, response>>

\* c.execute(update_command, argument_values): one autocommitted statement
ExecuteAttributeUpdate(p) ==
    /\ pc[p] = "attributes"
    /\ \E update \in {AttributeUpdate(req[p])} :
        /\ executed' = Append(executed, update)
        /\ table' = RunUpdate(table, ArgumentKeys(req[p].attributes), update.params)
    /\ pc' = [pc EXCEPT ![p] = "geometry"]
    /\ UNCHANGED <<layer, req, call, compiled, result, response>>

\* c.execute(set_geom_command, [primary_key]): a second autocommitted statement
ExecuteSetGeom(p) ==
    /\ pc[p] = "geometry"
    /\ \E set_geom \in {SetGeomCommand(req[p].geometry[1], layer,
                                       Param("attributes", req[p].attributes[PRIMARY_KEY_NAME]))} :
        /\ executed' = Append(executed, set_geom)
        /\ table' = RunSetGeom(table, ReadEwkt(EwktOf(set_geom))[1],
                               req[p].attributes[PRIMARY_KEY_NAME])
    /\ result' = [result EXCEPT ![p] = EditReturned(req[p].attributes[PRIMARY_KEY_NAME])]
    /\ pc' = [pc EXCEPT ![p] = "done"]
    /\ UNCHANGED <<layer, req, call, compiled, response>>

ConcurrentInit ==
    /\ layer = LayerRow("")
    /\ table \in {SampleTable(n) : n \in 1..MaxRows}
    /\ pc = [p \in Callers |-> "idle"]
    /\ req = [p \in Callers |-> NoEdit.feature]
    /\ call = NoCall
    /\ compiled = NoStatement
    /\ executed = <<>>
    /\ result = [p \in Callers |-> NoResult]
    /\ response = NoResponse

ConcurrentNext ==
    \E p \in Callers :
        \/ CallUpdateFeature(p)
        \/ ExecuteAttributeUpdate(p)
        \/ ExecuteSetGeom(p)

ConcurrentSpec == ConcurrentInit /\ [][ConcurrentNext]_vars

(***************************************************************************)
(* wkt.from_rings: Esri rings to the polygons of a MultiPolygon.           *)
(***************************************************************************)
MaxRingCoord == 4   \* ring coordinates: 0..MaxRingCoord
MaxRings == 3       \* rings of one Esri polygon: 0..MaxRings

\* a number of a geometry as JSON and WKT write it: the integer n (f = ""),
\* or the float n.0 (f = "0") or n.5 (f = "5")
Number(n, f) == [n |-> n, f |-> f]

\* the value of a number, in tenths
Tenths(c) == 10 * c.n + (IF c.f = "5" THEN 5 ELSE 0)

\* pt1 == pt2 for two points: lists of numbers compared by value
SamePoint(p, q) == Tenths(p[1]) = Tenths(q[1]) /\ Tenths(p[2]) = Tenths(q[2])

\* hole.reverse() / ring[::-1]
ReverseRing(ring) == [i \in DOMAIN ring |-> ring[Len(ring) + 1 - i]]

\* the rings a client sends: the squares with corners on the diagonal, in both
\* directions, one of them left open, a ring of two points and an empty ring
Square(lo, hi) ==
    LET pt(x, y) == <<Number(x, ""), Number(y, "")>>
    IN <<pt(lo, lo), pt(lo, hi), pt(hi, hi), pt(hi, lo), pt(lo, lo)>>

InputRings ==
    LET squares == { Square(lo, hi) : lo \in 0..(MaxRingCoord - 1), hi \in 1..MaxRingCoord }
        proper == { sq \in squares : sq[1][1].n < sq[3][1].n }
    IN proper \cup { ReverseRing(sq) : sq \in proper }
       \cup { SubSeq(Square(0, MaxRingCoord), 1, 4), SubSeq(Square(0, 1), 1, 2), <<>> }

\* a variant that makes an uncontained hole an outer ring as it is
UnreversedHole(hole) == hole

\* hole.reverse() of an uncontained hole before it becomes an outer ring
ReversedHole(hole) == ReverseRing(hole)

\* wkt.close_ring; coordinates[0] of an empty ring raises IndexError (<<>>)
CloseRing(coordinates) ==
    IF coordinates = <<>> THEN <<>>
    ELSE IF ~SamePoint(coordinates[1], coordinates[Len(coordinates)])
    THEN <<Append(coordinates, coordinates[1])>>
    ELSE <<coordinates>>

\* wkt.is_clockwise: the sum over the sides of (x2 - x1) * (y2 + y1) is >= 0
IsClockwise(ring_to_test) ==
    LET RECURSIVE total(_)
        total(idx) ==
            IF idx >= Len(ring_to_test) THEN 0
            ELSE (Tenths(ring_to_test[idx + 1][1]) - Tenths(ring_to_test[idx][1]))
                 * (Tenths(ring_to_test[idx + 1][2]) + Tenths(ring_to_test[idx][2]))
                 + total(idx + 1)
    IN total(1) >= 0

\* 0 <= n / d <= 1 for d # 0
InUnitInterval(n, d) == IF d > 0 THEN 0 <= n /\ n <= d ELSE n <= 0 /\ d <= n

\* wkt.edges_intersect
EdgesIntersect(a1, a2, b1, b2) ==
    LET ax == Tenths(a2[1]) - Tenths(a1[1])
        ay == Tenths(a2[2]) - Tenths(a1[2])
        bx == Tenths(b2[1]) - Tenths(b1[1])
        by == Tenths(b2[2]) - Tenths(b1[2])
        ux == Tenths(a1[1]) - Tenths(b1[1])
        uy == Tenths(a1[2]) - Tenths(b1[2])
        a_dot_b == (by * ax) - (bx * ay)
        b_dot_u == (bx * uy) - (by * ux)
        a_dot_u == (ax * uy) - (ay * ux)
    IN IF a_dot_b = 0 THEN FALSE
       ELSE InUnitInterval(b_dot_u, a_dot_b) /\ InUnitInterval(a_dot_u, a_dot_b)

\* wkt.arrays_intersect for two rings of points
ArraysIntersect(a, b) ==
    \E i \in 1..(Len(a) - 1) : \E j \in 1..(Len(b) - 1) :
        EdgesIntersect(a[i], a[i + 1], b[j], b[j + 1])

\* wkt.coordinates_contain_point: the crossing number of the point is odd
CoordinatesContainPoint(coordinates, point) ==
    LET x(p) == Tenths(p[1])
        y(p) == Tenths(p[2])
        pt1(i) == coordinates[i]
        pt2(i) == IF i = 1 THEN coordinates[Len(coordinates)] ELSE coordinates[i - 1]
        check_y(i) ==
            \/ y(pt1(i)) <= y(point) /\ y(point) < y(pt2(i))
            \/ y(pt2(i)) <= y(point) /\ y(point) < y(pt1(i))
        \* point[0] < (point[1] - pt1[1]) * (pt2[0] - pt1[0]) / (pt2[1] - pt1[1]) + pt1[0]
        check_x(i) ==
            LET n == (y(point) - y(pt1(i))) * (x(pt2(i)) - x(pt1(i)))
                d == y(pt2(i)) - y(pt1(i))
                lhs == (x(point) - x(pt1(i))) * d
            IN IF d > 0 THEN lhs < n ELSE lhs > n
    IN Cardinality({i \in DOMAIN coordinates : check_y(i) /\ check_x(i)}) % 2 = 1

\* wkt.coordinates_contain_coordinates
CoordinatesContainCoordinates(outer, inner) ==
    ~ArraysIntersect(outer, inner) /\ CoordinatesContainPoint(outer, inner[1])

\* the first loop of from_rings: rings are closed, rings of fewer than four
\* points dropped, clockwise rings become outer rings and the others holes
RECURSIVE ClassifyRings(_, _)
ClassifyRings(rings, acc) ==
    IF rings = <<>> \/ acc.error # "" THEN acc
    ELSE LET closed == CloseRing(Head(rings))
         IN ClassifyRings(Tail(rings),
               IF closed = <<>> THEN [acc EXCEPT !.error = "IndexError"]
               ELSE IF Len(closed[1]) < 4 THEN acc
               ELSE IF IsClockwise(closed[1])
               THEN [acc EXCEPT !.outer_rings = Append(@, <<closed[1]>>)]
               ELSE [acc EXCEPT !.holes = Append(@, closed[1])])

\* 'while holes': holes are popped from the end; 'for r in reversed_outer_rings'
\* goes on with the ONE iterator reversed(outer_rings) made before the loop,
\* whose next element is outer_rings[acc.next] (0: exhausted)
RECURSIVE ContainHoles(_)
ContainHoles(acc) ==
    IF acc.holes = <<>> THEN acc
    ELSE LET hole == acc.holes[Len(acc.holes)]
             rest == SubSeq(acc.holes, 1, Len(acc.holes) - 1)
             found == { k \in 1..acc.next :
                          CoordinatesContainCoordinates(acc.outer_rings[k][1], hole) }
         IN IF found = {}
            THEN ContainHoles([acc EXCEPT !.holes = rest, !.next = 0,
                                          !.uncontained_holes = Append(@, hole)])
            ELSE LET k == CHOOSE k \in found : \A j \in found : j <= k
                 IN ContainHoles([acc EXCEPT !.holes = rest, !.next = k - 1,
                                             !.outer_rings[k] = Append(@, hole)])

\* 'while uncontained_holes': the same iterator is read on; outer_rings[r]
\* with r a list raises TypeError; a hole that meets no ring is reversed and
\* becomes an outer ring
RECURSIVE PlaceUncontained(_)
PlaceUncontained(acc) ==
    IF acc.uncontained_holes = <<>> \/ acc.error # "" THEN acc
    ELSE LET hole == acc.uncontained_holes[Len(acc.uncontained_holes)]
             rest == SubSeq(acc.uncontained_holes, 1, Len(acc.uncontained_holes) - 1)
         IN IF \E k \in 1..acc.next : ArraysIntersect(acc.outer_rings[k][1], hole)
            THEN [acc EXCEPT !.error = "TypeError"]
            ELSE PlaceUncontained([acc EXCEPT !.uncontained_holes = rest, !.next = 0,
                                              !.outer_rings = Append(@, <<ReversedHole(hole)>>)])

\* wkt.from_rings: the error raised, or the coordinates of the MultiPolygon
FromRings(rings) ==
    LET contained(sorted) ==
            IF sorted.error # "" THEN sorted
            ELSE PlaceUncontained(
                    ContainHoles([sorted EXCEPT !.next = Len(sorted.outer_rings)]))
        returned(acc) == [error |-> acc.error,
                          coordinates |-> IF acc.error # "" THEN <<>> ELSE acc.outer_rings]
    IN returned(contained(ClassifyRings(rings,
                   [error |-> "", outer_rings |-> <<>>, holes |-> <<>>,
                    uncontained_holes |-> <<>>, next |-> 0])))

NoRings == [rings |-> <<>>]

\* from_rings is called with the rings of an Esri polygon
CallFromRings ==
    /\ pc = "idle"
    /\ \E rings \in SeqsUpTo(InputRings, MaxRings) :
        /\ req' = [rings |-> rings]
        /\ \E returned \in {FromRings(rings)} :
              result' = IF returned.error # "" THEN Raised(returned.error, {})
                        ELSE [NoResult EXCEPT !.status = "returned",
                                              !.data = returned.coordinates]
    /\ pc' = "done"
    /\ UNCHANGED <<layer, table, call, compiled, executed, response>>

RingsInit ==
    /\ layer = [LayerRow("") EXCEPT !.geometry_type = "esriGeometryPolygon"]
    /\ table = <<>>
    /\ pc = "idle"
    /\ req = NoRings
    /\ call = NoCall
    /\ compiled = NoStatement
    /\ executed = <<>>
    /\ result = NoResult
    /\ response = NoResponse

RingsSpec == RingsInit /\ [][CallFromRings]_vars

\* ---------------------------------------------------------------------------
\* wkt.py: to_esri_feature and from_esri_feature on texts.  A text is the
\* sequence of its characters; a geometry type word and the SRID prefix are
\* written as one element each.  The texts carry no sign and no exponent, so
\* the -? and [eE] parts of the two patterns match nothing in them.
\* ---------------------------------------------------------------------------

DigitChars == <<"0", "1", "2", "3", "4", "5", "6", "7", "8", "9">>

IsDigit(ch) == \E d \in DOMAIN DigitChars : DigitChars[d] = ch

DigitValue(ch) == (CHOOSE d \in DOMAIN DigitChars : DigitChars[d] = ch) - 1

\* str(n) of a non-negative integer
RECURSIVE Decimal(_)
Decimal(n) ==
    IF n < 10 THEN <<DigitChars[n + 1]>> ELSE Decimal(n \div 10) \o <<DigitChars[(n % 10) + 1]>>

\* the number of digits text carries from position i on
RECURSIVE DigitRun(_, _)
DigitRun(text, i) ==
    IF i <= Len(text) /\ IsDigit(text[i]) THEN 1 + DigitRun(text, i + 1) ELSE 0

\* int() of a run of digits
RECURSIVE IntOf(_)
IntOf(digits) ==
    IF digits = <<>> THEN 0
    ELSE 10 * IntOf(SubSeq(digits, 1, Len(digits) - 1)) + DigitValue(digits[Len(digits)])

\* str(x) / json.dumps(x) of a number: 1, 1.0 or 1.5
NumberText(c) == Decimal(c.n) \o (IF c.f = "" THEN <<>> ELSE <<".", c.f>>)

\* the number a text of digits with an optional fraction denotes, <<>> for
\* any other text: int(text) without a fraction, float(text) with one
ReadNumber(text) ==
    LET whole == DigitRun(text, 1)
        frac == DigitRun(text, whole + 2)
    IN IF whole = 0 THEN <<>>
       ELSE IF whole = Len(text) THEN <<Number(IntOf(text), "")>>
       ELSE IF text[whole + 1] = "." /\ frac > 0 /\ whole + 1 + frac = Len(text)
       THEN <<Number(IntOf(SubSeq(text, 1, whole)),
                     Joined(SubSeq(text, whole + 2, Len(text))))>>
       ELSE <<>>

\* float(text): an integer text gives the float with a zero fraction
Float(text) ==
    LET read == ReadNumber(text)
    IN IF read = <<>> THEN <<>>
       ELSE IF read[1].f = "" THEN <<Number(read[1].n, "0")>>
       ELSE read

\* -?\d+(?:.\d+)? matched at position i: the positions after each way to match,
\* in the order the regex engine tries them (longest run of digits first, the
\* optional group taken before it is skipped; '.' is unescaped and matches any
\* character)
NumberEnds(text, i) ==
    LET after(k) ==
            LET j == i + k
                m == IF j <= Len(text) THEN DigitRun(text, j + 1) ELSE 0
            IN [q \in 1..m |-> j + 1 + (m - q + 1)] \o <<j>>
        r == DigitRun(text, i)
    IN Flatten([k \in 1..r |-> after(r - k + 1)])

\* the first element of ends, if any, that ok accepts
FirstEnd(ends, ok(_)) ==
    IF \E k \in DOMAIN ends : ok(ends[k])
    THEN ends[CHOOSE k \in DOMAIN ends : ok(ends[k]) /\ \A l \in 1..(k - 1) : ~ok(ends[l])]
    ELSE 0

\* WKT_GEOM_REGEX matched at position i: the position after the match, 0 if
\* there is none
WktMatch(text, i) ==
    LET second(e1) == IF e1 <= Len(text) /\ text[e1] = " "
                      THEN NumberEnds(text, e1 + 1) ELSE <<>>
        ok(e1) == second(e1) # <<>>
        first == FirstEnd(NumberEnds(text, i), ok)
    IN IF first = 0 THEN 0 ELSE Head(second(first))

\* ESRI_GEOM_REGEX matched at position i: the position after the match, 0 if
\* there is none
EsriMatch(text, i) ==
    LET is(p, ch) == p <= Len(text) /\ text[p] = ch
        closed(e2) == is(e2, "]")
        second(s) == FirstEnd(NumberEnds(text, s), closed)
        seps(e1) == IF ~is(e1, ",") THEN <<>>
                    ELSE IF is(e1 + 1, " ") THEN <<e1 + 2, e1 + 1>> ELSE <<e1 + 1>>
        sep_ok(s) == second(s) # 0
        separated(e1) == FirstEnd(seps(e1), sep_ok)
        ok(e1) == separated(e1) # 0
        first == FirstEnd(NumberEnds(text, i + 1), ok)
    IN IF ~is(i, "[") \/ first = 0 THEN 0 ELSE second(separated(first)) + 1

\* str.replace of one character by a text
Replace(text, ch, by) == Flatten([p \in DOMAIN text |-> IF text[p] = ch THEN by ELSE <<text[p]>>])

\* the first position from i on where a pattern matches, 0 if there is none
FirstMatch(text, i, Match(_, _)) ==
    LET starts == { p \in i..Len(text) : Match(text, p) # 0 }
    IN IF starts = {} THEN 0 ELSE CHOOSE p \in starts : \A q \in starts : p <= q

\* WKT_GEOM_REGEX.findall(wkt)
RECURSIVE FindAll(_, _)
FindAll(text, i) ==
    LET from(p) == IF p = 0 THEN <<>>
                   ELSE <<SubSeq(text, p, WktMatch(text, p) - 1)>>
                        \o FindAll(text, WktMatch(text, p))
    IN from(FirstMatch(text, i, WktMatch))

\* WKT_GEOM_REGEX.sub(lambda m: '[{}]'.format(m.group().replace(' ', ',')), text)
RECURSIVE WktSub(_, _)
WktSub(text, i) ==
    LET from(p) ==
            IF p = 0 THEN SubSeq(text, i, Len(text))
            ELSE SubSeq(text, i, p - 1)
                 \o <<"[">> \o Replace(SubSeq(text, p, WktMatch(text, p) - 1), " ", <<",">>)
                 \o <<"]">> \o WktSub(text, WktMatch(text, p))
    IN from(FirstMatch(text, i, WktMatch))

\* ESRI_GEOM_REGEX.sub(lambda m: m.group().replace('[', '').replace(']', '')
\*                                        .replace(',', ' '), text)
RECURSIVE EsriSub(_, _)
EsriSub(text, i) ==
    LET group(p) == SubSeq(text, p, EsriMatch(text, p) - 1)
        from(p) ==
            IF p = 0 THEN SubSeq(text, i, Len(text))
            ELSE SubSeq(text, i, p - 1)
                 \o Replace(Replace(Replace(group(p), "[", <<>>), "]", <<>>), ",", <<" ">>)
                 \o EsriSub(text, EsriMatch(text, p))
    IN from(FirstMatch(text, i, EsriMatch))

\* json.dumps of nested lists of numbers: depth 0 is a number, depth d + 1 a
\* list of values of depth d, its items separated by ', '
RECURSIVE Dumps(_, _)
Dumps(value, depth) ==
    IF depth = 0 THEN NumberText(value)
    ELSE LET item(k) == (IF k = 1 THEN <<>> ELSE <<",", " ">>) \o Dumps(value[k], depth - 1)
         IN <<"[">> \o Flatten([k \in DOMAIN value |-> item(k)]) \o <<"]">>

\* the outcome of scanning one JSON value: the value and the position after it
Scanned(value, next) == [ok |-> TRUE, value |-> value, next |-> next]

\* the scan that raises JSONDecodeError
NotJson == [ok |-> FALSE, value |-> <<>>, next |-> 0]

\* json's whitespace skipping
RECURSIVE SkipSpace(_, _)
SkipSpace(text, i) == IF i <= Len(text) /\ text[i] = " " THEN SkipSpace(text, i + 1) ELSE i

\* json's number scan at position i: 0 or a run of digits not led by 0, then
\* an optional fraction
ScanNumber(text, i) ==
    LET whole == IF text[i] = "0" THEN 1 ELSE DigitRun(text, i)
        dot == i + whole
        frac == IF dot <= Len(text) /\ text[dot] = "." THEN DigitRun(text, dot + 1) ELSE 0
        next == IF frac = 0 THEN dot ELSE dot + 1 + frac
    IN Scanned(ReadNumber(SubSeq(text, i, next - 1))[1], next)

\* json's scanner: a list or a number read at position i
RECURSIVE ScanValue(_, _)
RECURSIVE ScanItems(_, _, _)
ScanValue(text, at) ==
    LET from(i) ==
            IF i > Len(text) THEN NotJson
            ELSE IF text[i] = "["
            THEN LET inside(j) == IF j <= Len(text) /\ text[j] = "]"
                                  THEN Scanned(<<>>, j + 1)
                                  ELSE ScanItems(text, j, <<>>)
                 IN inside(SkipSpace(text, i + 1))
            ELSE IF IsDigit(text[i]) THEN ScanNumber(text, i)
            ELSE NotJson
    IN from(SkipSpace(text, at))

ScanItems(text, i, items) ==
    LET then(item) ==
            LET after(j) ==
                    IF j > Len(text) THEN NotJson
                    ELSE IF text[j] = "," THEN ScanItems(text, j + 1, Append(items, item.value))
                    ELSE IF text[j] = "]" THEN Scanned(Append(items, item.value), j + 1)
                    ELSE NotJson
            IN IF item.ok THEN after(SkipSpace(text, item.next)) ELSE NotJson
    IN then(ScanValue(text, i))

\* json.loads(text): the value, or JSONDecodeError when the text is no JSON
\* value or carries more than one
Loads(text) ==
    LET whole(v) == IF v.ok /\ SkipSpace(text, v.next) > Len(text) THEN v ELSE NotJson
    IN whole(ScanValue(text, 1))

\* text.find(ch) as a position from 1, 0 for -1
Find(text, ch) ==
    IF \E p \in DOMAIN text : text[p] = ch
    THEN CHOOSE p \in DOMAIN text : text[p] = ch /\ \A q \in 1..(p - 1) : text[q] # ch
    ELSE 0

\* text.replace(word, '') for a non-empty word: every occurrence is removed
RECURSIVE RemoveAll(_, _)
RemoveAll(text, word) ==
    LET starts == { p \in 1..(Len(text) - Len(word) + 1) :
                      SubSeq(text, p, p + Len(word) - 1) = word }
        from(p) == SubSeq(text, 1, p - 1)
                   \o RemoveAll(SubSeq(text, p + Len(word), Len(text)), word)
    IN IF word = <<>> \/ starts = {} THEN text
       ELSE from(CHOOSE p \in starts : \A q \in starts : p <= q)

\* what a conversion gives: the exception it raises ("" for none) and its value
Converted(value) == [error |-> "", value |-> value]

Failed(exception) == [error |-> exception, value |-> <<>>]

\* _geom_repl of to_esri_feature
geom_repl(wkt, type_chars) ==
    LET bracket_multiplier == IF Joined(type_chars) = "LINESTRING" THEN 2 ELSE 1
        brackets(ch) == [k \in 1..bracket_multiplier |-> ch]
        text == Replace(Replace(WktSub(RemoveAll(wkt, type_chars), 1), "(", brackets("[")),
                        ")", brackets("]"))
    IN Loads(text)

\* wkt.to_esri_feature: value <<>> is None, else <<geometry>>
to_esri_feature(wkt) ==
    LET open == Find(wkt, "(")
        type_chars == SubSeq(wkt, 1, IF open = 0 THEN Len(wkt) - 1 ELSE open - 1)
        geom_type == Joined(type_chars)
        point(match) ==
            IF Len(match) # 1 THEN Failed("ValueError")
            ELSE LET space == Find(match[1], " ")
                     x == Float(SubSeq(match[1], 1, space - 1))
                     y == Float(SubSeq(match[1], space + 1, Len(match[1])))
                 IN IF x = <<>> \/ y = <<>> THEN Failed("ValueError")
                    ELSE Converted(<<[x |-> x[1], y |-> y[1]]>>)
        lists(loaded) ==
            IF ~loaded.ok THEN Failed("JSONDecodeError")
            ELSE IF geom_type \in {"LINESTRING", "MULTILINESTRING"}
            THEN Converted(<<[paths |-> loaded.value]>>)
            ELSE IF geom_type = "POLYGON" THEN Converted(<<[rings |-> loaded.value]>>)
            ELSE IF loaded.value = <<>> THEN Failed("IndexError")
            ELSE Converted(<<[rings |-> loaded.value[1]]>>)
    IN IF geom_type \in {"POINT", "MULTIPOINT"} THEN point(FindAll(wkt, 1))
       ELSE IF geom_type \in {"LINESTRING", "MULTILINESTRING", "POLYGON", "MULTIPOLYGON"}
       THEN lists(geom_repl(wkt, type_chars))
       ELSE Converted(<<>>)

\* _get_geom_text of from_esri_feature
get_geom_text(geom_text) == Replace(Replace(EsriSub(geom_text, 1), "[", <<"(">>), "]", <<")">>)

\* wkt.from_esri_feature: value is the EWKT text
from_esri_feature(feature, geom_type) ==
    LET wkid == IF "spatialReference" \in DOMAIN feature THEN feature.spatialReference.wkid
                ELSE DefaultWkid
        srid == "SRID=" \o ToString(wkid) \o ";"
        polygons(made) ==
            IF made.error # "" THEN Failed(made.error)
            ELSE Converted(<<srid, "MULTIPOLYGON">>
                           \o get_geom_text(Replace(Dumps(made.coordinates, 4), " ", <<>>)))
    IN IF geom_type = "esriGeometryPoint"
       THEN IF {"x", "y"} \subseteq DOMAIN feature
            THEN Converted(<<srid, "POINT", "(">> \o NumberText(feature.x) \o <<" ">>
                           \o NumberText(feature.y) \o <<")">>)
            ELSE Failed("KeyError")
       ELSE IF geom_type = "esriGeometryPolyline"
       THEN IF "paths" \in DOMAIN feature
            THEN Converted(<<srid, "MULTILINESTRING">>
                           \o get_geom_text(Replace(Dumps(feature.paths, 3), " ", <<>>)))
            ELSE Failed("KeyError")
       ELSE IF geom_type = "esriGeometryPolygon"
       THEN IF "rings" \in DOMAIN feature THEN polygons(FromRings(feature.rings))
            ELSE Failed("KeyError")
       ELSE Failed("ValueError")

\* ---------------------------------------------------------------------------
\* Esri geometries written as EWKT and read back
\* ---------------------------------------------------------------------------

\* how the numbers of one geometry are written: 1, 1.0 or 1.5
NumberFormats == {"", "0", "5"}

\* a list of points with its numbers in format f
InFormat(points, f) ==
    [k \in DOMAIN points |-> <<Number(points[k][1].n, f), Number(points[k][2].n, f)>>]

\* the squares with sides along the axes, clockwise
Squares ==
    { sq \in { Square(lo, hi) : lo \in 0..(MaxRingCoord - 1), hi \in 1..MaxRingCoord } :
        sq[1][1].n < sq[3][1].n }

\* paths of two different points
Paths ==
    LET corners == { <<Number(x, ""), Number(y, "")>> : x \in 0..1, y \in 0..1 }
    IN { <<p, q>> : p \in corners, q \in corners } \ { <<p, p>> : p \in corners }

\* request geometries: points, polylines of one or two paths, and polygons of
\* one or two rings; without a spatialReference or with wkid 4326
EsriFeatures ==
    LET shapes(f) ==
            { [x |-> Number(x, f), y |-> Number(y, f)] :
                x \in 0..MaxRingCoord, y \in 0..MaxRingCoord }
            \cup { [paths |-> [k \in DOMAIN paths |-> InFormat(paths[k], f)]] :
                     paths \in SeqsUpTo(Paths, 2) \ {<<>>} }
            \cup { [rings |-> [k \in DOMAIN rings |-> InFormat(rings[k], f)]] :
                     rings \in SeqsUpTo(Squares \cup { ReverseRing(sq) : sq \in Squares }, 2)
                               \ {<<>>} }
        plain == UNION { shapes(f) : f \in NumberFormats }
    IN plain \cup { [k \in DOMAIN g \cup {"spatialReference"} |->
                       IF k = "spatialReference" THEN [wkid |-> 4326] ELSE g[k]] : g \in plain }

\* the layer geometry type a geometry is sent to
GeometryTypeOf(feature) ==
    IF "x" \in DOMAIN feature THEN "esriGeometryPoint"
    ELSE IF "paths" \in DOMAIN feature THEN "esriGeometryPolyline"
    ELSE "esriGeometryPolygon"

\* a text with every zero fraction dropped, as ST_AsText writes numbers
Canonical(text) ==
    LET is(p, ch) == p \in DOMAIN text /\ text[p] = ch
        zero(p) == is(p, ".") /\ is(p + 1, "0")
                   /\ ~(p + 2 \in DOMAIN text /\ IsDigit(text[p + 2]))
    IN Flatten([p \in DOMAIN text |->
                  IF zero(p) \/ zero(p - 1) THEN <<>> ELSE <<text[p]>>])

\* ST_AsText of the geometry an EWKT text wrote, stored in its own SRID: the
\* text without its SRID prefix
AsText(ewkt) == Canonical(Tail(ewkt))

NoFeature == [feature |-> <<>>, geom_type |-> ""]

NoText == [error |-> "", value |-> <<>>]

\* from_esri_feature is applied to a request geometry
CallFromEsriFeature ==
    /\ pc = "idle"
    /\ \E feature \in EsriFeatures :
        /\ req' = [feature |-> feature, geom_type |-> GeometryTypeOf(feature)]
        /\ call' = from_esri_feature(feature, GeometryTypeOf(feature))
    /\ pc' = "written"
    /\ UNCHANGED <<layer, table, compiled, executed, result, response>>

\* to_esri_feature is applied to the text written, and to the text the
\* database returns for it
CallToEsriFeature ==
    /\ pc = "written"
    /\ call.error = ""
    /\ result' = to_esri_feature(call.value)
    /\ response' = to_esri_feature(AsText(call.value))
    /\ pc' = "done"
    /\ UNCHANGED <<layer, table, req, call, compiled, executed>>

EsriRoundTripInit ==
    /\ layer = LayerRow("")
    /\ table = <<>>
    /\ pc = "idle"
    /\ req = NoFeature
    /\ call = NoText
    /\ compiled = NoStatement
    /\ executed = <<>>
    /\ result = NoText
    /\ response = NoText

EsriRoundTripNext == CallFromEsriFeature \/ CallToEsriFeature

EsriRoundTripSpec == EsriRoundTripInit /\ [][EsriRoundTripNext]_vars

\* ---------------------------------------------------------------------------
\* stored geometries read as WKT and written back
\* ---------------------------------------------------------------------------

\* ','.join of texts
RECURSIVE CommaSeparated(_)
CommaSeparated(parts) ==
    IF parts = <<>> THEN <<>>
    ELSE IF Len(parts) = 1 THEN parts[1]
    ELSE parts[1] \o <<",">> \o CommaSeparated(Tail(parts))

\* the WKT of a list of points: (x y,x y)
PointsText(points) ==
    <<"(">> \o CommaSeparated([k \in DOMAIN points |->
                NumberText(points[k][1]) \o <<" ">> \o NumberText(points[k][2])])
    \o <<")">>

\* the WKT of a list of lists of points: ((x y,x y),(x y,x y))
ListsText(lists) ==
    <<"(">> \o CommaSeparated([k \in DOMAIN lists |-> PointsText(lists[k])]) \o <<")">>

\* the WKT of the member polygons of a multipolygon
PolygonsText(polygons) ==
    <<"(">> \o CommaSeparated([k \in DOMAIN polygons |-> ListsText(polygons[k])]) \o <<")">>

\* the side range of a square ring
Low(ring) == ring[1][1].n

High(ring) == ring[3][1].n

\* polygons the database stores: an exterior square in either direction, alone
\* or with one square hole inside it, in either direction
StoredPolygons ==
    LET rings == Squares \cup { ReverseRing(sq) : sq \in Squares }
    IN { <<exterior>> : exterior \in rings }
       \cup { pair \in { <<exterior, hole>> : exterior \in rings, hole \in rings } :
                Low(pair[1]) < Low(pair[2]) /\ High(pair[2]) < High(pair[1]) }

\* geometries the database stores, their numbers integers or halves
StoredGeometries ==
    LET apart(p, q) == High(p[1]) < Low(q[1]) \/ High(q[1]) < Low(p[1])
        formats == {"", "5"}
        lists(ll, f) == [k \in DOMAIN ll |-> InFormat(ll[k], f)]
    IN { [type |-> "POINT", point |-> <<Number(x, f), Number(y, f)>>] :
            x \in 0..MaxRingCoord, y \in 0..MaxRingCoord, f \in formats }
       \cup { [type |-> "LINESTRING", points |-> InFormat(path, f)] :
                path \in Paths, f \in formats }
       \cup { [type |-> "MULTILINESTRING", lists |-> lists(paths, f)] :
                paths \in SeqsUpTo(Paths, 2) \ {<<>>}, f \in formats }
       \cup { [type |-> "POLYGON", lists |-> lists(polygon, f)] :
                polygon \in StoredPolygons, f \in formats }
       \cup { [type |-> "MULTIPOLYGON", polygons |-> <<lists(polygon, f)>>] :
                polygon \in StoredPolygons, f \in formats }
       \cup { [type |-> "MULTIPOLYGON", polygons |-> <<lists(pq[1], f), lists(pq[2], f)>>] :
                pq \in { pq \in StoredPolygons \X StoredPolygons : apart(pq[1], pq[2]) },
                f \in formats }

\* ST_AsText(dbasin_geom)
StoredText(g) ==
    <<g.type>> \o (IF g.type = "POINT" THEN PointsText(<<g.point>>)
                   ELSE IF g.type = "LINESTRING" THEN PointsText(g.points)
                   ELSE IF g.type \in {"MULTILINESTRING", "POLYGON"} THEN ListsText(g.lists)
                   ELSE PolygonsText(g.polygons))

\* ST_ForceRHR of a polygon: the exterior ring clockwise, the holes not
ForceRHR(polygon) ==
    [k \in DOMAIN polygon |->
        IF IsClockwise(polygon[k]) = (k = 1) THEN polygon[k] ELSE ReverseRing(polygon[k])]

\* ST_AsEWKT(ST_ForceRHR(ST_Multi(dbasin_geom))) of a geometry stored in the
\* default SRID
MultiEwkt(g) ==
    <<"SRID=" \o ToString(DefaultWkid) \o ";">>
    \o (IF g.type = "POINT" THEN <<"POINT">> \o PointsText(<<g.point>>)
        ELSE IF g.type = "LINESTRING" THEN <<"MULTILINESTRING">> \o ListsText(<<g.points>>)
        ELSE IF g.type = "MULTILINESTRING" THEN <<"MULTILINESTRING">> \o ListsText(g.lists)
        ELSE IF g.type = "POLYGON"
        THEN <<"MULTIPOLYGON">> \o PolygonsText(<<ForceRHR(g.lists)>>)
        ELSE <<"MULTIPOLYGON">>
             \o PolygonsText([k \in DOMAIN g.polygons |-> ForceRHR(g.polygons[k])]))

\* the layer geometry type of a stored geometry
LayerGeometryType(g) ==
    IF g.type = "POINT" THEN "esriGeometryPoint"
    ELSE IF g.type \in {"LINESTRING", "MULTILINESTRING"} THEN "esriGeometryPolyline"
    ELSE "esriGeometryPolygon"

NoStored == [geometry |-> <<>>, geom_type |-> "", wkt |-> <<>>]

\* to_esri_feature is applied to the text of a stored geometry
ReadStoredText ==
    /\ pc = "idle"
    /\ \E g \in StoredGeometries :
        /\ req' = [geometry |-> <<g>>, geom_type |-> LayerGeometryType(g), wkt |-> StoredText(g)]
        /\ call' = to_esri_feature(StoredText(g))
    /\ pc' = "read"
    /\ UNCHANGED <<layer, table, compiled, executed, result, response>>

\* from_esri_feature is applied to what to_esri_feature returned; an exception
\* of to_esri_feature reaches the caller, and None has no get()
WriteBack ==
    /\ pc = "read"
    /\ result' = IF call.error # "" THEN Failed(call.error)
                 ELSE IF call.value = <<>> THEN Failed("AttributeError")
                 ELSE from_esri_feature(call.value[1], req.geom_type)
    /\ pc' = "done"
    /\ UNCHANGED <<layer, table, req, call, compiled, executed, response>>

WktRoundTripInit ==
    /\ layer = LayerRow("")
    /\ table = <<>>
    /\ pc = "idle"
    /\ req = NoStored
    /\ call = NoText
    /\ compiled = NoStatement
    /\ executed = <<>>
    /\ result = NoText
    /\ response = NoResponse

WktRoundTripNext == ReadStoredText \/ WriteBack

WktRoundTripSpec == WktRoundTripInit /\ [][WktRoundTripNext]_vars


\* ---------------------------------------------------------------------------
\* views.py: convert_wkt_to_esri_feature on the rows of a query.  A row is
\* its attributes (column name to value) and its st_astext column: <<>> when
\* the column was not selected, else <<text>> with text <<>> for NULL.
\* ---------------------------------------------------------------------------

\* the keys of a row, query_fields for the first row
RowKeys(item) == DOMAIN item.attributes \cup (IF item.st_astext = <<>> THEN {} ELSE {"st_astext"})

\* joined_tables: the relations with a field among the query fields, each with
\* its source column, its target column and those fields
JoinedTables(query_fields) ==
    LET fields(r) == { c \in Range(RelatedColumns) : r.related_title \o "." \o c \in query_fields }
    IN SelectSeq([i \in DOMAIN Relations |->
                    [title |-> Relations[i].related_title,
                     source |-> Relations[i].source_column,
                     target |-> Relations[i].target_column,
                     fields |-> fields(Relations[i])]],
                 LAMBDA t : t.fields # {})

\* item_hash: 'id:{id}.{fk}:{val}.{table}' of a related entry, or the object
\* id alone for a row without related fields
ItemHash(id, fk, val, tbl) == [id |-> id, fk |-> fk, val |-> val, table |-> tbl]

\* the state of the loop: the exception raised ("" for none), the feature
\* objects made, the positions of those appended to features, and
\* already_added as pairs of a hash and the position of its feature object
NoFeatures == [error |-> "", objects |-> <<>>, features |-> <<>>, already_added |-> {}]

\* already_added[item_hash]
AddedAt(acc, item_hash) ==
    (CHOOSE e \in acc.already_added : e.hash = item_hash).object

\* a variant of the lookup that finds a hash only when the previous item added it
IsAddedByPreviousItem(acc, item_hash) ==
    \E e \in acc.already_added : e.hash = item_hash /\ e.object >= Len(acc.objects) - 1

\* item_hash in already_added
IsAdded(acc, item_hash) == \E e \in acc.already_added : e.hash = item_hash

\* the loop over joined_tables for one item whose feature object is the last
\* of acc.objects: to_be_related maps the titles not yet placed to their entry
RECURSIVE PlaceRelated(_, _, _, _)
PlaceRelated(tables, k, to_be_related, acc) ==
    IF k > Len(tables)
    THEN IF DOMAIN to_be_related # {}
         THEN [acc EXCEPT !.features = Append(@, Len(acc.objects))]
         ELSE acc
    ELSE LET t == tables[k].title
             this == Len(acc.objects)
             item == acc.objects[this].attributes
         IN IF t \notin DOMAIN to_be_related THEN [acc EXCEPT !.error = "KeyError"]
            ELSE LET to_add == to_be_related[t]
                     item_hash == ItemHash(item[PRIMARY_KEY_NAME], tables[k].source,
                                           to_add[tables[k].target], t)
                     rest == [u \in DOMAIN to_be_related \ {t} |-> to_be_related[u]]
                 IN IF IsAdded(acc, item_hash)
                    THEN LET first == AddedAt(acc, item_hash)
                             related == acc.objects[first].related
                             list == IF t \in DOMAIN related THEN related[t] ELSE <<>>
                         IN PlaceRelated(tables, k + 1, rest,
                              [acc EXCEPT !.objects[first].related =
                                  [u \in DOMAIN related \cup {t} |->
                                      IF u = t THEN Append(list, to_add) ELSE related[u]]])
                    ELSE LET related == acc.objects[this].related
                         IN PlaceRelated(tables, k + 1, to_be_related,
                              [acc EXCEPT !.objects[this].related =
                                              [u \in DOMAIN related \cup {t} |->
                                                  IF u = t THEN <<to_add>> ELSE related[u]],
                                          !.already_added =
                                              @ \cup {[hash |-> item_hash, object |-> this]}])

\* one iteration of the loop over response_items; a feature object holds the
\* attributes left in the item, its geometry (<<>> without the key, else
\* <<value>> with value <<>> for None), whether it keeps the related key, and
\* the related lists by title
ConvertItem(item, tables, layer_fields, has_geometry, acc) ==
    LET keys == DOMAIN item.attributes
        dotted == { a \in keys : a \notin layer_fields /\ Len(DotSplit(a)) > 1 }
        selected == { a \in dotted :
                        \E k \in DOMAIN tables : /\ tables[k].title = DotSplit(a)[1]
                                                 /\ DotSplit(a)[2] \in tables[k].fields }
        titles == { DotSplit(a)[1] : a \in selected }
        info(t) == tables[CHOOSE k \in DOMAIN tables : tables[k].title = t]
        entry(t) ==
            [c \in { DotSplit(a)[2] : a \in { b \in selected : DotSplit(b)[1] = t } }
                   \cup {info(t).target} |->
                IF t \o "." \o c \in selected THEN item.attributes[t \o "." \o c]
                ELSE item.attributes[info(t).source]]
        to_be_related == [t \in titles |-> entry(t)]
        kept == [a \in keys \ selected |-> item.attributes[a]]
        feature(geometry) ==
            [attributes |-> kept, geometry |-> geometry,
             has_related |-> titles # {}, related |-> <<>>]
        made(geometry) == [acc EXCEPT !.objects = Append(@, feature(geometry))]
        placed(with) ==
            IF titles # {} THEN PlaceRelated(tables, 1, to_be_related, with)
            ELSE IF PRIMARY_KEY_NAME \in keys
            THEN IF IsAdded(with, ItemHash(item.attributes[PRIMARY_KEY_NAME], "", NullVal, ""))
                 THEN with
                 ELSE [with EXCEPT
                         !.already_added =
                             @ \cup {[hash |-> ItemHash(item.attributes[PRIMARY_KEY_NAME],
                                                        "", NullVal, ""),
                                      object |-> Len(with.objects)]},
                         !.features = Append(@, Len(with.objects))]
            ELSE [with EXCEPT !.features = Append(@, Len(with.objects))]
        related(with) ==
            IF \E a \in dotted : \A k \in DOMAIN tables : tables[k].title # DotSplit(a)[1]
            THEN [acc EXCEPT !.error = "KeyError"]
            ELSE IF titles # {} /\ ~({PRIMARY_KEY_NAME} \cup { info(u).source : u \in titles }
                                      \subseteq keys)
            THEN [acc EXCEPT !.error = "KeyError"]
            ELSE placed(with)
        read(got) == IF got.error # "" THEN [acc EXCEPT !.error = got.error]
                     ELSE related(made(<<got.value>>))
    IN IF ~has_geometry THEN related(made(<<>>))
       ELSE IF item.st_astext = <<>> THEN [acc EXCEPT !.error = "KeyError"]
       ELSE IF item.st_astext[1] = <<>> THEN [acc EXCEPT !.error = "AttributeError"]
       ELSE read(to_esri_feature(item.st_astext[1]))

RECURSIVE ConvertItems(_, _, _, _, _, _)
ConvertItems(response_items, k, tables, layer_fields, has_geometry, acc) ==
    IF k > Len(response_items) \/ acc.error # "" THEN acc
    ELSE ConvertItems(response_items, k + 1, tables, layer_fields, has_geometry,
                      ConvertItem(response_items[k], tables, layer_fields, has_geometry, acc))

\* convert_wkt_to_esri_feature: the exception raised, or the features returned
ConvertWktToEsriFeature(response_items) ==
    IF response_items = <<>> THEN [error |-> "", features |-> <<>>]
    ELSE LET query_fields == RowKeys(response_items[1])
             returned(acc) ==
                [error |-> acc.error,
                 features |-> IF acc.error # "" THEN <<>>
                              ELSE [i \in DOMAIN acc.features |-> acc.objects[acc.features[i]]]]
         IN returned(ConvertItems(response_items, 1, JoinedTables(query_fields),
                                  (Range(FieldNames) \cap query_fields) \cup {"id"},
                                  "st_astext" \in query_fields, NoFeatures))

\* the return fields of the queries whose rows are converted: related fields
\* selected by name or by wildcard, or layer fields only
ConvertedReturnFields ==
    { <<"*", "measurements.*">>, <<"measurements.well_depth">>, <<"depth">> }

\* the names of the columns of the rows: _expand_fields for a list with a
\* wildcard or a related field, the list itself otherwise, the object id first
RowColumns(return_fields) ==
    LET with_id == IF Contains(return_fields, PRIMARY_KEY_NAME) THEN return_fields
                   ELSE <<PRIMARY_KEY_NAME>> \o return_fields
    IN IF \E i \in DOMAIN with_id : IsWildOrDotted(with_id[i])
       THEN NamesOf(FieldsToExpand(FieldsOf(with_id, "outFields")))
       ELSE with_id

\* ST_AsText of a stored point, <<>> for NULL
PointText(geom) ==
    IF geom = NullGeom THEN <<>>
    ELSE StoredText([type |-> "POINT", point |-> <<Number(geom[1], ""), Number(geom[2], "")>>])

\* dictfetchall: the row of one joined row
RowItem(tbl, jr, columns, return_geometry) ==
    [attributes |->
        [c \in Range(columns) |->
            IF Len(DotSplit(c)) > 1 THEN ColumnValue(tbl, jr, DotSplit(c)[1], DotSplit(c)[2])
            ELSE ColumnValue(tbl, jr, "source", c)],
     st_astext |-> IF return_geometry
                   THEN <<PointText(SourceRow(tbl, jr.db_id)[GEOM_FIELD_NAME])>>
                   ELSE <<>>]

\* the tables whose rows are converted: the sample rows, one of them at most
\* without a geometry
ConvertedTables ==
    UNION { {SampleTable(n)}
            \cup { [SampleTable(n) EXCEPT ![i].dbasin_geom = NullGeom] : i \in 1..n }
          : n \in 0..MaxRows }

NoConversion == [error |-> "", features |-> <<>>]

\* perform_query returns the rows of the layer joined to its related table, in
\* any order a query may ask for; a join the where-clause asked for keeps the
\* rows with a related row only
FetchJoinedRows ==
    /\ pc = "idle"
    /\ \E return_fields \in ConvertedReturnFields, return_geometry \in BOOLEAN :
         \E joined \in {JoinedRows(table, <<Relations[1].related_title>>)} :
           \E rows \in { IF \E i \in DOMAIN return_fields : IsWildOrDotted(return_fields[i])
                         THEN joined
                         ELSE SelectSeq(joined, LAMBDA jr : jr.rel # 0) } :
             \E p \in Permutations(DOMAIN rows) :
                /\ req' = [return_fields |-> return_fields, return_geometry |-> return_geometry,
                           rows |-> [i \in DOMAIN rows |-> rows[p[i]]]]
                /\ result' = [NoResult EXCEPT
                                !.status = "returned",
                                !.data = [i \in DOMAIN rows |->
                                            RowItem(table, rows[p[i]], RowColumns(return_fields),
                                                    return_geometry)]]
    /\ pc' = "fetched"
    /\ UNCHANGED <<layer, table, call, compiled, executed, response>>

\* QueryView.handle_request converts the rows
ConvertRows ==
    /\ pc = "fetched"
    /\ response' = ConvertWktToEsriFeature(result.data)
    /\ pc' = "done"
    /\ UNCHANGED <<layer, table, req, call, compiled, executed, result>>

ConvertInit ==
    /\ layer = LayerRow("")
    /\ table \in ConvertedTables
    /\ pc = "idle"
    /\ req = [return_fields |-> <<>>, return_geometry |-> FALSE, rows |-> <<>>]
    /\ call = NoCall
    /\ compiled = NoStatement
    /\ executed = <<>>
    /\ result = NoResult
    /\ response = NoConversion

ConvertNext == FetchJoinedRows \/ ConvertRows

ConvertSpec == ConvertInit /\ [][ConvertNext]_vars

(***************************************************************************)
(* Error classification: exceptions.derive_error_response_data.            *)
(***************************************************************************)
BAD_DATA == "BAD_DATA"
DUPLICATE_COLUMN == "DUPLICATE_COLUMN"
TRANSFORM == "TRANSFORM"
UNKNOWN_ERROR == "UNKNOWN_ERROR"

MaxFragments == 2   \* fragments of one error message: 0..MaxFragments

UpperChars == <<
        "A", "B", "C", "D", "E", "F", "G", "H", "I", "J", "K", "L", "M", "N",
        "O", "P", "Q", "R", "S", "T", "U", "V", "W", "X", "Y", "Z">>

LowerChars == <<
        "a", "b", "c", "d", "e", "f", "g", "h", "i", "j", "k", "l", "m", "n",
        "o", "p", "q", "r", "s", "t", "u", "v", "w", "x", "y", "z">>

\* str.lower()
StrLower(text) ==
    [p \in DOMAIN text |->
        IF \E k \in DOMAIN UpperChars : UpperChars[k] = text[p]
        THEN LowerChars[CHOOSE k \in DOMAIN UpperChars : UpperChars[k] = text[p]]
        ELSE text[p]]

\* text.find(word) as a position from 1, 0 for -1
FindText(text, word) ==
    LET starts == {p \in 1..(Len(text) - Len(word) + 1) :
                      SubSeq(text, p, p + Len(word) - 1) = word}
    IN IF starts = {} THEN 0 ELSE CHOOSE p \in starts : \A q \in starts : p <= q

\* word in text
In(word, text) == FindText(text, word) # 0

\* str.strip(): leading and trailing whitespace is removed
Strip(text) ==
    LET inked == {p \in DOMAIN text : text[p] \notin {" ", "\n"}}
    IN IF inked = {} THEN <<>>
       ELSE SubSeq(text, CHOOSE p \in inked : \A q \in inked : p <= q,
                         CHOOSE p \in inked : \A q \in inked : p >= q)

\* the fragments error messages are made of
TransformText == <<
        "T", "r", "a", "n", "s", "f", "o", "r", "m", ":", " ", "c", "o", "u",
        "l", "d", "n", "'", "t", " ", "p", "r", "o", "j", "e", "c", "t", " ",
        "p", "o", "i", "n", "t">>

ColumnText == <<"C", "O", "L", "U", "M", "N", " ", "\"", "x", "\"">>

MoreThanOnceText == <<
        "s", "p", "e", "c", "i", "f", "i", "e", "d", " ", "m", "o", "r", "e",
        " ", "t", "h", "a", "n", " ", "o", "n", "c", "e">>

OutOfRangeText == <<
        "v", "a", "l", "u", "e", " ", "O", "u", "t", " ", "O", "f", " ", "R",
        "a", "n", "g", "e">>

InvalidSyntaxText == <<
        "i", "n", "v", "a", "l", "i", "d", " ", "i", "n", "p", "u", "t", " ",
        "s", "y", "n", "t", "a", "x", " ", "f", "o", "r", " ", "i", "n", "t",
        "e", "g", "e", "r">>

LineText == <<"\n", "L", "I", "N", "E", " ", "1", "2", ":", " ", "x">>

LineWithoutColonText == <<"\n", "L", "I", "N", "E", " ", "1", "2">>

LowerLineText == <<"\n", "l", "i", "n", "e", " ", "1", "2", ":", " ", "x">>

OtherText == <<
        "s", "o", "m", "e", " ", "r", "a", "n", "d", "o", "m", " ", "e", "r",
        "r", "o", "r">>

MessageFragments ==
    {TransformText, ColumnText, MoreThanOnceText, OutOfRangeText,
     InvalidSyntaxText, LineText, LineWithoutColonText, LowerLineText,
     OtherText}

\* the texts derive_error_response_data looks for
TransformWord == <<"t", "r", "a", "n", "s", "f", "o", "r", "m">>

ColumnWord == <<"c", "o", "l", "u", "m", "n">>

MoreThanOnceWords == <<
        "s", "p", "e", "c", "i", "f", "i", "e", "d", " ", "m", "o", "r", "e",
        " ", "t", "h", "a", "n", " ", "o", "n", "c", "e">>

OutOfRangeWords == <<"o", "u", "t", " ", "o", "f", " ", "r", "a", "n", "g", "e">>

InvalidSyntaxWords == <<
        "i", "n", "v", "a", "l", "i", "d", " ", "i", "n", "p", "u", "t", " ",
        "s", "y", "n", "t", "a", "x">>

line_marker == <<"\n", "L", "I", "N", "E", " ">>

InternalErrorName == <<
        "I", "n", "t", "e", "r", "n", "a", "l", "E", "r", "r", "o", "r">>

\* the messages: at most MaxFragments fragments, joined by spaces
RECURSIVE MessagesOf(_)
MessagesOf(k) ==
    IF k = 0 THEN {<<>>}
    ELSE LET shorter == MessagesOf(k - 1)
         IN shorter \cup {IF m = <<>> THEN f ELSE m \o <<" ">> \o f :
                            m \in shorter, f \in MessageFragments}

Messages == MessagesOf(MaxFragments)

\* an exception: its class, the text it was raised with, whether it has the
\* attribute 'message', and its attributes 'fields' and 'file_info' (<<>>: no
\* such attribute)
Exception(class, text, has_message, fields, file_info) ==
    [class |-> class, text |-> text, has_message |-> has_message,
     fields |-> fields, file_info |-> file_info]

\* django.db.utils.InternalError(text)
InternalError(text) == Exception("InternalError", text, FALSE, <<>>, <<>>)

\* InvalidFieldsError(message, fields): fields = None is stored as []
InvalidFieldsError(message, fields) ==
    Exception("InvalidFieldsError", message, TRUE,
              <<IF fields = <<>> THEN <<>> ELSE fields[1]>>, <<>>)

\* InvalidFileError(message, lines, extension)
InvalidFileError(message, lines, extension) ==
    Exception("InvalidFileError", message, TRUE, <<>>,
              <<[lines |-> lines, extension |-> extension]>>)

\* exceptions.error_to_string
error_to_string(error) ==
    IF error.has_message THEN error.text
    ELSE IF error.text # <<>> THEN error.text
    ELSE InternalErrorName

\* QueryExecutionError(underlying, fields)
QueryExecutionError(underlying, fields) ==
    Exception("QueryExecutionError", error_to_string(underlying), TRUE,
              <<IF fields = <<>> THEN <<>> ELSE fields[1]>>, <<>>)

\* the exceptions raised with a message
ExceptionsWith(text) ==
    {InternalError(text),
     InvalidFieldsError(text, <<>>), InvalidFieldsError(text, <<<<"a", "b">>>>),
     InvalidFileError(text, 0 - 1, ""), InvalidFileError(text, 0, "xxx"),
     QueryExecutionError(InternalError(text), <<>>),
     QueryExecutionError(InternalError(text), <<<<"t">>>>)}

ErrorCodes == {UNKNOWN_ERROR, BAD_DATA, DUPLICATE_COLUMN, TRANSFORM}

\* a variant of the classification that looks for bad data first
ErrorCodeBadDataFirst(error_text, code) ==
    IF In(OutOfRangeWords, error_text) \/ In(InvalidSyntaxWords, error_text) THEN BAD_DATA
    ELSE IF In(TransformWord, error_text) THEN TRANSFORM
    ELSE IF In(ColumnWord, error_text) /\ In(MoreThanOnceWords, error_text)
    THEN DUPLICATE_COLUMN
    ELSE code

\* the error code derive_error_response_data derives from the lowered message
ErrorCode(error_text, code) ==
    IF In(TransformWord, error_text) THEN TRANSFORM
    ELSE IF In(ColumnWord, error_text) /\ In(MoreThanOnceWords, error_text)
    THEN DUPLICATE_COLUMN
    ELSE IF In(OutOfRangeWords, error_text) THEN BAD_DATA
    ELSE IF In(InvalidSyntaxWords, error_text) THEN BAD_DATA
    ELSE code

\* the text between the first line marker and the next colon, stripped; <<>>
\* when str.index raises ValueError
ErrorLine(error_msg) ==
    LET at == FindText(error_msg, line_marker)
        rest == SubSeq(error_msg, at + Len(line_marker), Len(error_msg))
        colon == Find(rest, ":")
    IN IF at = 0 \/ colon = 0 THEN <<>>
       ELSE <<Strip(SubSeq(rest, 1, colon - 1))>>

\* the branch that looks for the line: the last of the if / elif chain
ReadsLine(error_text) ==
    /\ ~In(TransformWord, error_text)
    /\ ~(In(ColumnWord, error_text) /\ In(MoreThanOnceWords, error_text))
    /\ ~In(OutOfRangeWords, error_text)
    /\ In(InvalidSyntaxWords, error_text)

\* exceptions.derive_error_response_data: the dict it returns
derive_error_response_data(e, code) ==
    LET error_msg == error_to_string(e)
        error_text == StrLower(error_msg)
        line == IF ReadsLine(error_text) THEN ErrorLine(error_msg) ELSE <<>>
        keys == {"error_code", "underlying"}
                \cup (IF e.fields # <<>> THEN {"field_info"} ELSE {})
                \cup (IF e.file_info # <<>> THEN {"file_info"} ELSE {})
                \cup (IF line # <<>> THEN {"error_line"} ELSE {})
    IN [k \in keys |->
          CASE k = "error_code" -> ErrorCode(error_text, code)
            [] k = "underlying" -> error_msg
            [] k = "field_info" -> e.fields
            [] k = "file_info" -> e.file_info
            [] k = "error_line" -> line]

NoException == [e |-> InternalError(<<>>), code |-> ""]

\* derive_error_response_data(e, code) is called
DeriveErrorResponseData ==
    /\ pc = "idle"
    /\ result' = derive_error_response_data(req.e, req.code)
    /\ pc' = "done"
    /\ UNCHANGED <<layer, table, req, call, compiled, executed, response>>

ErrorInit ==
    /\ layer = LayerRow("")
    /\ table = <<>>
    /\ pc = "idle"
    /\ req \in {[e |-> e, code |-> code] :
                  e \in UNION {ExceptionsWith(m) : m \in Messages}, code \in ErrorCodes}
    /\ call = NoCall
    /\ compiled = NoStatement
    /\ executed = <<>>
    /\ result = NoResult
    /\ response = NoResponse

ErrorSpec == ErrorInit /\ [][DeriveErrorResponseData]_vars

(***************************************************************************)
(* The field list of a layer across requests: FeatureLayerView.dispatch,   *)
(* FeatureServiceLayer.fields and get_fields, with the schema of the       *)
(* layer's table changing between and during requests.                     *)
(***************************************************************************)
MaxRequests == 2    \* requests served: 0..MaxRequests
MaxUses == 2        \* times one request reads layer.fields: 0..MaxUses
MaxChanges == 2     \* schema changes: 0..MaxChanges

\* the column lists information_schema.columns may hold for the layer's table:
\* as created, with a column added, with a column removed, and as replaced by
\* deploy, finalize or append
Schemas ==
    {TableColumns,
     TableColumns \o <<"extra_col">>,
     SelectSeq(TableColumns, LAMBDA c : c # "depth"),
     <<PRIMARY_KEY_NAME, "species", GEOM_FIELD_NAME>>}

\* get_fields(for_table): the columns of the table as they are now
get_fields(tbl) == tbl.columns

\* a FeatureServiceLayer instance as the ORM makes it: _fields = None
NewLayerObject == [_fields |-> <<>>]

\* a variant of the lookup that hands out the instance of the request before
GetObjectKept(objects) ==
    IF objects = <<>> THEN [objects |-> <<NewLayerObject>>, at |-> 1]
    ELSE [objects |-> objects, at |-> Len(objects)]

\* get_object_or_404(FeatureServiceLayer, ...): a new instance for each call;
\* the instances of earlier requests are left as they are
GetObjectOr404(objects) ==
    [objects |-> Append(objects, NewLayerObject), at |-> Len(objects) + 1]

\* the requests that read layer.fields, and what they read it for
FieldUses ==
    [query |-> {"validate", "expand", "describe"},
     applyEdits |-> {"add_feature", "update_feature"}]

\* FeatureLayerView.dispatch: the layer of the request is looked up
Dispatch ==
    /\ pc = "idle"
    /\ req.id < MaxRequests
    /\ \E kind \in DOMAIN FieldUses :
         req' = [id |-> req.id + 1, kind |-> kind, uses |-> 0, dispatched |-> table.version]
    /\ layer' = GetObjectOr404(layer.objects)
    /\ pc' = "handling"
    /\ UNCHANGED <<table, call, compiled, executed, result, response>>

\* FeatureServiceLayer.fields is read by the request in progress: the list is
\* fetched with get_fields when the instance has none, and kept on the instance
ReadFields ==
    /\ pc = "handling"
    /\ req.uses < MaxUses
    /\ \E purpose \in FieldUses[req.kind] :
         LET this == layer.objects[layer.at]
             fields == IF this._fields = <<>>
                       THEN [columns |-> get_fields(table), version |-> table.version,
                             read_in |-> req.id]
                       ELSE this._fields[1]
         IN /\ layer' = [layer EXCEPT !.objects[layer.at]._fields = <<fields>>]
            /\ executed' = Append(executed,
                              [request |-> req.id, purpose |-> purpose,
                               dispatched |-> req.dispatched,
                               fields |-> fields,
                               live |-> [columns |-> table.columns, version |-> table.version]])
    /\ req' = [req EXCEPT !.uses = @ + 1]
    /\ UNCHANGED <<table, pc, call, compiled, result, response>>

\* the request is answered
FinishRequest ==
    /\ pc = "handling"
    /\ pc' = "idle"
    /\ UNCHANGED <<layer, table, req, call, compiled, executed, result, response>>

\* a column is added or removed, or the table is replaced
ChangeSchema ==
    /\ table.version < MaxChanges
    /\ \E columns \in Schemas \ {table.columns} :
         table' = [columns |-> columns, version |-> table.version + 1]
    /\ UNCHANGED <<layer, pc, req, call, compiled, executed, result, response>>

SchemaInit ==
    /\ layer = [objects |-> <<>>, at |-> 0]
    /\ table = [columns |-> TableColumns, version |-> 0]
    /\ pc = "idle"
    /\ req = [id |-> 0, kind |-> "", uses |-> 0, dispatched |-> 0]
    /\ call = NoCall
    /\ compiled = NoStatement
    /\ executed = <<>>
    /\ result = NoResult
    /\ response = NoResponse

SchemaNext == Dispatch \/ ReadFields \/ FinishRequest \/ ChangeSchema

SchemaSpec == SchemaInit /\ [][SchemaNext]_vars

Spec == QuerySpec

(***************************************************************************)
(* Properties of the query path (QuerySpec).                               *)
(***************************************************************************)
\* perform_query has been called and its validation has run
Validated == pc \in {"build", "execute", "respond", "done"} /\ call # NoCall

\* perform_query has returned or raised
Finished == pc \in {"respond", "done"} /\ call # NoCall

Where == call.sp.additional_where_clause

\* the text, once prefixed with WHERE, parses into more than one statement
SeveralStatements == Where # "" /\ Len(SqlParse(Where)) > 1

\* the names a statement may carry: catalog names, their segments, aliases
CatalogText ==
    Range(FieldNames) \cup Range(RelatedFieldNames) \cup Range(RelatedColumns) \cup {"*"}
    \cup {r.related_title : r \in Range(Relations)}

OrderModifiers == {"ASC", "DESC", "asc", "desc"}

\* a lexeme of an executed statement is text of the code or the catalog, a
\* validated field name, part of a validated where-clause, or an integer
\* written from limit or offset
AdmittedLexeme(l) ==
    CASE l.org \in {"code", "catalog"} -> TRUE
      [] l.org = "where" -> ValidateWhereClause(Where) = NoError
      [] l.org \in {"outFields", "orderByFields"} ->
            \/ l.ttype \in {"Name", "Wildcard", "Alias"} /\ l.value \in CatalogText
            \/ l.ttype = "Keyword" /\ l.value \in OrderModifiers
      [] l.org \in {"limit", "offset"} -> l.ttype = "Number" /\ IsIntText(l.value)
      [] OTHER -> FALSE

\* C1 (as claimed): every lexeme of every statement sent to the database that
\* carries client text is a validated field name, part of the validated
\* where-clause or a normalized integer; the time bounds, object ids, extent
\* and output SRID never appear in the text, only among the bound parameters.
C1_ClientTextValidatedOrBound ==
    \A k \in DOMAIN executed :
        \A i \in DOMAIN SqlText(executed[k]) : AdmittedLexeme(SqlText(executed[k])[i])

\* C1: a statement was executed whose text holds the client's outSR value,
\* and that value is not the text of an integer
C1_OutSrTextExecuted ==
    \E k \in DOMAIN executed :
        \E i \in DOMAIN SqlText(executed[k]) :
            /\ SqlText(executed[k])[i].org = "outSR"
            /\ ~IsIntText(SqlText(executed[k])[i].value)

\* the return or order-by fields are rejected before the where-clause is looked at
FieldsRejected ==
    /\ ~call.sp.ids_only
    /\ \/ ValidateFields(Range(NamesOf(ReturnFields(call.sp))), call.sp.object_ids # <<>>).error # ""
       \/ ValidateFields(Range(OrderByFieldNames(call.sp)), call.sp.object_ids # <<>>).error # ""

\* C2 (amended): a where-clause of several statements makes
\* _validate_where_clause fail with InvalidSQLError; perform_query then fails
\* without executing anything, with InvalidSQLError unless its return or
\* order-by fields were rejected first (then with their field error).
C2_SeveralStatementsRejected ==
    (Validated /\ SeveralStatements) =>
        /\ ValidateWhereClause(Where).error = "InvalidSQLError"
        /\ result.status = "raised"
        /\ executed = <<>>
        /\ IF FieldsRejected
           THEN result.error \in {"InvalidFieldsError", "RelatedFieldsError"}
           ELSE result.error = "InvalidSQLError"

\* C2: a request with a where-clause of two statements was answered 400 after
\* perform_query raised InvalidSQLError
C2_RejectedAsInvalidSQL ==
    /\ pc = "done"
    /\ req.where = "1=1; DROP TABLE x"
    /\ result.error = "InvalidSQLError"
    /\ response.status = 400

\* C2 (as claimed): a where-clause of several statements always makes
\* perform_query fail with InvalidSQLError.
C2_AlwaysInvalidSQLError ==
    (Validated /\ SeveralStatements) =>
        (result.status = "raised" /\ result.error = "InvalidSQLError")

\* the identifiers of the where-clause that are neither a field of the layer
\* nor a qualified related field
Offending ==
    {f \in ParseWhereClause(Where).fields :
        f \notin Range(FieldNames) \cup Range(RelatedFieldNames)}

\* C3: a single-statement where-clause with an identifier that is neither a
\* layer field nor a qualified related field fails where-clause validation
\* with InvalidFieldsError, and the error's fields are exactly the offending
\* identifiers; when perform_query gets as far as the where-clause, that is
\* the error it raises.
C3_OffendingIdentifiersReported ==
    (Validated /\ Where # "" /\ ~SeveralStatements /\ Offending # {}) =>
        /\ ValidateWhereClause(Where) = [error |-> "InvalidFieldsError", fields |-> Offending]
        /\ ~FieldsRejected =>
              /\ result.status = "raised"
              /\ result.error = "InvalidFieldsError"
              /\ result.fields = Offending

\* C3: a where-clause naming one field of the layer and two unknown
\* identifiers was rejected, the error listing the two
C3_TwoOffendersListed ==
    /\ pc = "done"
    /\ req.where = "depth = 1 OR nonexistent_col = 1 AND other_col = 1"
    /\ result.error = "InvalidFieldsError"
    /\ result.fields = {"nonexistent_col", "other_col"}

\* C4: whenever perform_query raised a validation error, no statement was
\* sent to the database for the request, whatever the other parameters are.
C4_NothingExecutedWhenRejected ==
    (result.status = "raised" /\ result.error \in ValidationErrors) =>
        (executed = <<>> /\ compiled = NoStatement)

\* C4: a request with object ids and an invalid where-clause was rejected
\* and nothing was executed
C4_RejectedWithOtherParameters ==
    /\ pc = "done"
    /\ result.error \in ValidationErrors
    /\ req.objectIds # ""
    /\ req.where # ""
    /\ executed = <<>>

IsRelatedField(f) ==
    f \in Range(RelatedFieldNames) \cup {r.related_title \o ".*" : r \in Range(Relations)}

ReturnNames == Range(NamesOf(ReturnFields(call.sp)))

OrderByNames == Range(OrderByFieldNames(call.sp))

\* names that are neither fields of the layer nor related fields
Unknown(names) == {f \in names : f \notin Range(FieldNames) \cup {"*"} /\ ~IsRelatedField(f)}

Related(names) == {f \in names : IsRelatedField(f)}

\* C5 (amended): in a perform_query that is not ids-only and has no object
\* ids, a related field among the return fields fails validation with
\* RelatedFieldsError listing the related return fields; when no return field
\* is invalid, a related field among the order-by fields fails it with
\* RelatedFieldsError listing the related order-by fields.  With object ids
\* related fields raise no RelatedFieldsError, and validation passes when
\* nothing else is invalid.
C5_RelatedFieldsNeedObjectIds ==
    (Validated /\ ~call.sp.ids_only) =>
        /\ (call.sp.object_ids = <<>> /\ Related(ReturnNames) # {}) =>
              (result.error = "RelatedFieldsError" /\ result.fields = Related(ReturnNames))
        /\ (/\ call.sp.object_ids = <<>>
            /\ Related(ReturnNames) = {}
            /\ Unknown(ReturnNames) = {}
            /\ Related(OrderByNames) # {}) =>
              (result.error = "RelatedFieldsError" /\ result.fields = Related(OrderByNames))
        /\ call.sp.object_ids # <<>> =>
              /\ result.error # "RelatedFieldsError"
              /\ (/\ Unknown(ReturnNames) = {}
                  /\ Unknown(OrderByNames) = {}
                  /\ ValidateWhereClause(Where) = NoError) => result.error \notin ValidationErrors

\* C5: the same related return field was rejected without object ids, and
\* here, with object ids, it was selected
C5_RelatedFieldSelectedWithObjectIds ==
    /\ pc = "done"
    /\ req.outFields = "measurements.well_depth"
    /\ req.objectIds # ""
    /\ result.status = "returned"
    /\ ValidateFields(ReturnNames, FALSE) =
          [error |-> "RelatedFieldsError", fields |-> {"measurements.well_depth"}]

\* C5 (as claimed): without object ids, a related field among the return or
\* order-by fields always fails validation with RelatedFieldsError listing
\* related fields.
C5_RelatedFieldsAlwaysReported ==
    (/\ Validated
     /\ ~call.sp.ids_only
     /\ call.sp.object_ids = <<>>
     /\ Related(ReturnNames \cup OrderByNames) # {}) =>
        /\ result.error = "RelatedFieldsError"
        /\ result.fields # {}
        /\ result.fields \subseteq Related(ReturnNames \cup OrderByNames)

Returned == Finished /\ result.status = "returned"

\* the rows the compiled statement yields from the requested offset on when
\* no LIMIT cuts them: joined rows, distinct ids, or the one row of a count
Selected == Window(Matching(compiled, table), call.offset, 0)

\* the first n elements of a sequence
Prefix(rows, n) == IF Len(rows) > n THEN SubSeq(rows, 1, n) ELSE rows

\* C6 (amended): with limit N > 0 the returned data are the first N rows at
\* most of those the compiled statement yields from the requested offset, and
\* exceeded_limit is true if and only if the statement yields more than N
\* rows from that offset (joined rows when a relation is joined; a count-only
\* statement yields one row); with limit 0, or a negative limit, every such
\* row is returned and exceeded_limit is false.
C6_LimitCutsTheSelectedRows ==
    Returned =>
        IF call.limit > 0
        THEN /\ Len(result.data) <= call.limit
             /\ result.data = Prefix(Selected, call.limit)
             /\ result.exceeded_limit <=> Len(Selected) > call.limit
        ELSE /\ result.data = Selected
             /\ ~result.exceeded_limit

\* C6: a request with limit 1 and offset 1 over a table of three rows got one
\* row and was told the limit was exceeded
C6_LimitExceededFromOffset ==
    /\ pc = "done"
    /\ req.limit = "1"
    /\ req.offset = "1"
    /\ Len(table) = MaxRows
    /\ Len(result.data) = 1
    /\ result.exceeded_limit
    /\ response.exceeded

\* the rows of the layer's table that the compiled filters select
FeaturesMatching ==
    {i \in DOMAIN table :
        \E j \in DOMAIN JoinedRows(table, compiled.related_tables) :
            LET jr == JoinedRows(table, compiled.related_tables)[j]
            IN jr.db_id = table[i].db_id /\ WhereHolds(table, jr, compiled.where, compiled.params)}

\* C6 (as claimed): with limit N > 0 at most N rows are returned and
\* exceeded_limit is true if and only if more than N rows of the table match
\* the filters, counted from the requested offset.
C6_ExceededIffMoreRowsMatch ==
    (Returned /\ call.limit > 0) =>
        /\ Len(result.data) <= call.limit
        /\ result.exceeded_limit <=> Cardinality(FeaturesMatching) - call.offset > call.limit

\* the client's where-clause and every supplied filter hold of a returned row
RowSatisfiesFilters(r) ==
    LET sp == call.sp
        source == SourceRow(table, r.db_id)
        joined == JoinedRows(table, compiled.related_tables)
        client == RewriteTokens(SqlParse(Where)[1], 1)
    IN /\ Where # "" =>
            \E j \in DOMAIN joined :
                /\ joined[j].db_id = r.db_id
                /\ compiled.mode = "ids" \/ joined[j].rel = r.rel
                /\ WhereHolds(table, joined[j], client, <<>>)
       /\ sp.object_ids # <<>> =>
            r.db_id \in {ToInt(sp.object_ids[i]) : i \in DOMAIN sp.object_ids}
       /\ (layer.start_time_field # "" /\ sp.start_time # <<>>) =>
            /\ DateCast(sp.start_time[1]) <= DateCast(source[layer.start_time_field])
            /\ DateCast(source[layer.start_time_field]) <= DateCast(sp.end_time[1])
       /\ sp.extent # <<>> => Intersects(source.dbasin_geom, sp.extent[1]) = "T"

\* C7 (as claimed): every row the compiled query selects satisfies the client
\* where-clause and each supplied filter: its object id is in the supplied
\* list, its time value is in the supplied range (to the day), its geometry
\* intersects the supplied extent, whatever operators the where-clause uses.
C7_SelectedRowsSatisfyEveryFilter ==
    (Returned /\ compiled.mode # "count") =>
        \A i \in DOMAIN result.data : RowSatisfiesFilters(result.data[i])

\* C7: a row was returned whose object id is not in the supplied list
C7_RowOutsideObjectIds ==
    /\ Returned
    /\ compiled.mode # "count"
    /\ call.sp.object_ids # <<>>
    /\ \E i \in DOMAIN result.data :
          result.data[i].db_id \notin
              {ToInt(call.sp.object_ids[k]) : k \in DOMAIN call.sp.object_ids}

(***************************************************************************)
(* Properties of the mutation path (EditSpec).                             *)
(***************************************************************************)
\* a lexeme of a mutation statement is text of the code or the catalog, or a
\* client attribute name that is a column of the table
AdmittedEditLexeme(l) ==
    \/ l.org \in {"code", "catalog"}
    \/ l.org = "attributes" /\ l.ttype = "Name" /\ l.value \in Range(TableColumns)

\* C8 (as claimed): in add_feature, update_feature and delete_feature no
\* client value (attribute value, primary key, geometry coordinates, spatial
\* reference) is part of the text of an executed statement, and every client
\* attribute name in the text is a column of the table.
C8_EditValuesBound ==
    \A k \in DOMAIN executed :
        \A i \in DOMAIN executed[k].text : AdmittedEditLexeme(executed[k].text[i])

\* C8: a statement was executed whose text holds the client's geometry, and
\* the database did not read that text as a point
C8_GeometryTextExecuted ==
    /\ pc = "done"
    /\ \E k \in DOMAIN executed :
          \E i \in DOMAIN executed[k].text :
              /\ executed[k].text[i].org = "geometry"
              /\ ReadEwkt(executed[k].text[i].value) = <<>>

\* an edit was handled in this step
Edited(op) == pc = "idle" /\ pc' = "done" /\ req'.op = op

\* the table's columns other than the primary key and the geometry column
\* that the attributes lack, in the table's order
Omitted(attributes) ==
    SelectSeq(TableColumns, LAMBDA c : c \notin SystemCols /\ c \notin DOMAIN attributes)

HasUnknownKey(attributes) == ~(DOMAIN attributes \subseteq Range(TableColumns))

Kinds(statements) == {statements[k].kind : k \in DOMAIN statements}

\* C9: add_feature with attributes that omit columns of the table (and hold
\* no unknown key) fails with the missing-attributes error naming exactly
\* the omitted columns; no INSERT is executed and the table keeps its rows.
C9_MissingAttributesNamed ==
    [][ (/\ Edited("add")
         /\ ~HasUnknownKey(req'.feature.attributes)
         /\ Omitted(req'.feature.attributes) # <<>>) =>
            /\ result'.status = "raised"
            /\ result'.error = "Missing attributes"
            /\ result'.data = Omitted(req'.feature.attributes)
            /\ "INSERT" \notin Kinds(executed')
            /\ table' = table ]_vars

\* C9: an add that omitted two columns was refused, the error naming both
C9_TwoColumnsOmitted ==
    /\ pc = "done"
    /\ req.op = "add"
    /\ DOMAIN req.feature.attributes = {"site"}
    /\ req.feature.geometry # <<>>
    /\ result.error = "Missing attributes"
    /\ result.data = <<"depth", "obs_date">>
    /\ table # <<>>

\* the names in the SET list of a statement's text
SetNames(statement) ==
    LET text == statement.text
        where == CHOOSE i \in DOMAIN text : text[i].ttype = "Keyword" /\ text[i].value = "WHERE"
    IN {text[i].value : i \in {j \in DOMAIN text : j < where /\ text[j].ttype = "Name"
                                                   /\ j > 3}}

\* the UPDATE statements among those executed
Updates(statements) == SelectSeq(statements, LAMBDA st : st.kind = "UPDATE")

\* C10: update_feature executes no UPDATE when the attributes lack the
\* primary key or hold a key that is no column of the table; otherwise its
\* attribute UPDATE sets exactly the supplied keys other than the primary
\* key and the geometry column, and only the row with the supplied primary
\* key changes.
C10_UpdateGuardedAndExact ==
    [][ Edited("update") =>
          LET attributes == req'.feature.attributes
          IN IF PRIMARY_KEY_NAME \notin DOMAIN attributes \/ HasUnknownKey(attributes)
             THEN /\ "UPDATE" \notin Kinds(executed')
                  /\ result'.status = "raised"
                  /\ table' = table
             ELSE /\ Updates(executed') # <<>>
                  /\ SetNames(Updates(executed')[1]) = DOMAIN attributes \ SystemCols
                  /\ Len(table') = Len(table)
                  /\ \A i \in DOMAIN table :
                        /\ table'[i].db_id = table[i].db_id
                        /\ table[i].db_id # attributes[PRIMARY_KEY_NAME] => table'[i] = table[i]
                        /\ (table[i].db_id = attributes[PRIMARY_KEY_NAME]
                            /\ result'.status = "returned") =>
                              \A c \in Range(TableColumns) \ SystemCols :
                                  table'[i][c] = IF c \in DOMAIN attributes
                                                 THEN ValueFor(attributes, c)
                                                 ELSE table[i][c] ]_vars

\* C10: an update of two columns of the second of three rows was applied
C10_TwoColumnsUpdated ==
    /\ pc = "done"
    /\ req.op = "update"
    /\ DOMAIN req.feature.attributes = {PRIMARY_KEY_NAME, GEOM_FIELD_NAME, "site", "depth"}
    /\ req.feature.attributes[PRIMARY_KEY_NAME] = 2
    /\ result.status = "returned"
    /\ Len(table) = MaxRows
    /\ table[2].site = req.feature.attributes["site"]
    /\ table[2] # SampleRow(2)
(***************************************************************************)
(* Properties of apply_edits (ApplyEditsSpec).                             *)
(***************************************************************************)
\* whether add_feature, update_feature, delete_feature succeed for one entry:
\* none of the three depends on the rows the table holds
AddSucceeds(feature) ==
    AddFeatureOutcome(<<>>, layer, feature).result.status = "returned"

UpdateSucceeds(feature) ==
    UpdateFeatureOutcome(<<>>, layer, feature).result.status = "returned"

DeleteSucceeds(entry) == DeleteEntryOutcome(<<>>, entry).result.status = "returned"

\* the response holds one item per submitted add, update and delete, in
\* submission order, each failed exactly when its own operation raises
OneResultPerEdit ==
    /\ Len(response.addResults) = Len(req.adds)
    /\ Len(response.updateResults) = Len(req.updates)
    /\ Len(response.deleteResults) = Len(req.deletes)
    /\ \A i \in DOMAIN req.adds : response.addResults[i].success = AddSucceeds(req.adds[i])
    /\ \A i \in DOMAIN req.updates :
          response.updateResults[i].success = UpdateSucceeds(req.updates[i])
    /\ \A i \in DOMAIN req.deletes :
          response.deleteResults[i].success = DeleteSucceeds(req.deletes[i])

\* C11 (as claimed): apply_edits returns exactly one result item per
\* submitted add, update and delete, each list in submission order; an
\* operation that raises fails only its own item, and every later operation
\* of the batch is still attempted and reported.
C11_OneResultPerEdit == pc = "done" => (response.status = 200 /\ OneResultPerEdit)

\* C11: on a layer that supports time, a batch whose deletes were executed
\* emptied the table; apply_edits raised while taking the time extent again
\* and no result item was returned
C11_ResultsLostOnEmptyTimeTable ==
    /\ pc = "done"
    /\ response.status = 500
    /\ req.deletes # <<>>
    /\ \E k \in DOMAIN executed : executed[k].kind = "DELETE"
    /\ table = <<>>
    /\ response.deleteResults = <<>>

\* C11 (where the time extent is not taken): on a layer without time support
\* every batch is answered with one item per submitted edit
C11_OneResultPerEditWithoutTime ==
    (pc = "done" /\ ~SupportsTime(layer)) => (response.status = 200 /\ OneResultPerEdit)

\* C11: a batch whose first add failed and whose second add, an update and a
\* delete succeeded afterwards, each reported in its own item
C11_LaterEditsReportedAfterFailure ==
    /\ pc = "done"
    /\ response.status = 200
    /\ Len(response.addResults) = 2
    /\ ~response.addResults[1].success
    /\ response.addResults[2].success
    /\ \E i \in DOMAIN response.updateResults : response.updateResults[i].success
    /\ \E i \in DOMAIN response.deleteResults : response.deleteResults[i].success
(***************************************************************************)
(* Properties of the two-statement edits (EditSpec).                       *)
(***************************************************************************)
\* the operation sent its attribute statement and its geometry UPDATE, and
\* the geometry UPDATE failed
GeometryFailed ==
    /\ result'.status = "raised"
    /\ result'.error = "DatabaseError"
    /\ Len(executed') = 3
    /\ executed'[3] = SetGeomCommand(req'.feature.geometry[1], layer, executed'[3].params[1])

\* C12: add_feature and update_feature send the attribute statement and the
\* geometry UPDATE as two statements outside any transaction: when the
\* geometry UPDATE fails, the operation is reported as failed while the row
\* add_feature inserted exists with the sent attributes and a null geometry,
\* and the row update_feature changed holds the sent attributes and its old
\* geometry.
C12_AttributesStayWhenGeometryFails ==
    [][ /\ (Edited("add") /\ GeometryFailed) =>
            /\ executed'[2].kind = "INSERT"
            /\ Len(table') = Len(table) + 1
            /\ SubSeq(table', 1, Len(table)) = table
            /\ table'[Len(table')].dbasin_geom = NullGeom
            /\ \A c \in Range(TableColumns) \ SystemCols :
                  table'[Len(table')][c] = ValueFor(req'.feature.attributes, c)
        /\ (Edited("update") /\ GeometryFailed) =>
            /\ executed'[2].kind = "UPDATE"
            /\ table' = RunUpdate(table, ArgumentKeys(req'.feature.attributes),
                                  executed'[2].params)
            /\ \A i \in DOMAIN table : table'[i].dbasin_geom = table[i].dbasin_geom
      ]_vars

\* C12: an add whose geometry UPDATE failed left its row in the table with a
\* null geometry, and the add is reported as failed
C12_RowAddedWithoutGeometry ==
    /\ pc = "done"
    /\ req.op = "add"
    /\ result.status = "raised"
    /\ result.error = "DatabaseError"
    /\ Len(executed) = 3
    /\ table # <<>>
    /\ table[Len(table)].dbasin_geom = NullGeom
    /\ table[Len(table)].site = req.feature.attributes["site"]
(***************************************************************************)
(* Properties of concurrent updates (ConcurrentSpec).                      *)
(***************************************************************************)
\* the row the concurrent calls update
SharedRow == SourceRow(table, 1)

\* the row holds what the feature of caller p sent: attributes and point
RowAsSentBy(p) ==
    /\ \A k \in DOMAIN req[p].attributes \ {PRIMARY_KEY_NAME} :
          SharedRow[k] = req[p].attributes[k]
    /\ <<SharedRow.dbasin_geom>> = ReadEwkt(FromEsriFeature(req[p].geometry[1],
                                                           layer.geometry_type))

\* C13 (as claimed): after two concurrent update_feature calls that carry
\* attributes and geometry for the same primary key have completed, the row
\* equals the result of running the two calls one after the other in some
\* order: it never holds the attributes of one call with the geometry of
\* the other.
C13_ConcurrentUpdatesSerialized ==
    (\A p \in Callers : pc[p] = "done") => \E p \in Callers : RowAsSentBy(p)

\* C13: both calls have completed and the row holds the attributes caller 2
\* sent with the point caller 1 sent, the two calls having sent different
\* attributes and different points
C13_AttributesAndGeometryFromDifferentCalls ==
    /\ \A p \in Callers : pc[p] = "done" /\ result[p].status = "returned"
    /\ req[1].attributes # req[2].attributes
    /\ req[1].geometry # req[2].geometry
    /\ SharedRow.site = req[2].attributes["site"]
    /\ <<SharedRow.dbasin_geom>> = ReadEwkt(FromEsriFeature(req[1].geometry[1],
                                                           layer.geometry_type))
(***************************************************************************)
(* Properties of the error texts sent to clients.                          *)
(***************************************************************************)
\* the result items of a response of apply_edits
ResultItems ==
    Range(response.addResults) \cup Range(response.updateResults)
    \cup Range(response.deleteResults)

\* C14 (as claimed): no response contains the text of a database exception:
\* a database error while adding, updating or deleting a feature yields a
\* failure item whose content does not include the exception's text.
C14_NoDatabaseTextInResultItems ==
    \A item \in ResultItems : item.text # "DatabaseError"

\* C14: apply_edits answered with a failure item whose description is the
\* prefix followed by the text of the database's exception
C14_DatabaseTextInFailureItem ==
    /\ pc = "done"
    /\ response.status = 200
    /\ \E i \in DOMAIN response.addResults :
          /\ ~response.addResults[i].success
          /\ response.addResults[i].description = "Error adding feature: "
          /\ response.addResults[i].text = "DatabaseError"

\* C14 (query path, QuerySpec): a database error raised by perform_query is
\* answered with status 400 and the fixed text 'Invalid request'
C14_QueryDatabaseErrorGeneric ==
    (pc = "done" /\ result.status = "raised" /\ result.error = "DatabaseError") =>
        (response.status = 400 /\ response.error = "Invalid request")

\* C14 (query path, QuerySpec): a query failed in the database and was answered
C14_QueryFailedInDatabase ==
    pc = "done" /\ result.status = "raised" /\ result.error = "DatabaseError"
(***************************************************************************)
(* Properties of from_rings (RingsSpec).                                   *)
(***************************************************************************)
\* the rings of the input that from_rings keeps, closed
KeptRings ==
    { CloseRing(req.rings[i])[1] :
        i \in { j \in DOMAIN req.rings : req.rings[j] # <<>> /\ Len(CloseRing(req.rings[j])[1]) >= 4 } }

ClockwiseInputs == { r \in KeptRings : IsClockwise(r) }

HoleInputs == { r \in KeptRings : ~IsClockwise(r) }

RingsReturned == pc = "done" /\ result.status = "returned"

Polygons == Range(result.data)

\* ring h is an interior ring of a polygon whose first ring is o
AttachedTo(h, o) ==
    \E poly \in Polygons : poly[1] = o /\ \E j \in 2..Len(poly) : poly[j] = h

\* C18: in the polygons from_rings returns, the first ring of every polygon
\* is clockwise and every following ring is counter-clockwise.
C18_OuterClockwiseHolesCounterClockwise ==
    RingsReturned =>
        \A poly \in Polygons :
            /\ IsClockwise(poly[1])
            /\ \A j \in 2..Len(poly) : ~IsClockwise(poly[j])

\* C18: from_rings returned a polygon with a hole and a polygon whose outer
\* ring is a reversed counter-clockwise input ring
C18_HoleAttachedAndHoleReversed ==
    /\ RingsReturned
    /\ \E poly \in Polygons : Len(poly) > 1
    /\ \E poly \in Polygons : \E h \in HoleInputs : Len(poly) = 1 /\ poly[1] = ReverseRing(h)

\* C19 (as claimed): every counter-clockwise ring contained in some clockwise
\* ring is an interior ring of an outer ring that contains it, for any
\* number and order of holes and outer rings.
C19_ContainedHolesAttached ==
    RingsReturned =>
        \A h \in HoleInputs :
            (\E o \in ClockwiseInputs : CoordinatesContainCoordinates(o, h)) =>
                \E o \in ClockwiseInputs :
                    CoordinatesContainCoordinates(o, h) /\ AttachedTo(h, o)

\* C19: two holes lie inside the same outer ring, the only outer ring of the
\* input; one is attached to it and the other is returned, reversed, as a
\* polygon of its own
C19_SecondHoleBecomesPolygon ==
    /\ RingsReturned
    /\ Cardinality(ClockwiseInputs) = 1
    /\ \E o \in ClockwiseInputs : \E h1, h2 \in HoleInputs :
          /\ h1 # h2
          /\ CoordinatesContainCoordinates(o, h1)
          /\ CoordinatesContainCoordinates(o, h2)
          /\ AttachedTo(h1, o)
          /\ ~AttachedTo(h2, o)
          /\ <<ReverseRing(h2)>> \in Polygons

\* C20 (as claimed): from_rings never raises; a counter-clockwise ring
\* becomes its own outer ring, reversed, only when no outer ring contains it
\* and no outer ring intersects it; one that intersects an outer ring
\* without being contained is attached to that outer ring's polygon.
C20_NeverRaisesAndIntersectingHolesAttached ==
    pc = "done" =>
        /\ result.status = "returned"
        /\ \A h \in HoleInputs :
              /\ <<ReverseRing(h)>> \in Polygons =>
                    \A o \in ClockwiseInputs :
                        ~CoordinatesContainCoordinates(o, h) /\ ~ArraysIntersect(o, h)
              /\ \A o \in ClockwiseInputs :
                    (/\ ArraysIntersect(o, h)
                     /\ \A c \in ClockwiseInputs : ~CoordinatesContainCoordinates(c, h))
                    => AttachedTo(h, o)

\* C20: a counter-clockwise ring crosses the only outer ring of the input
\* and is returned, reversed, as a polygon of its own; nothing is attached
C20_IntersectingHoleBecomesPolygon ==
    /\ RingsReturned
    /\ Cardinality(ClockwiseInputs) = 1
    /\ \E o \in ClockwiseInputs : \E h \in HoleInputs :
          /\ ArraysIntersect(o, h)
          /\ ~AttachedTo(h, o)
          /\ <<ReverseRing(h)>> \in Polygons

\* C20: from_rings raised IndexError on a list that holds an empty ring
C20_EmptyRingRaises ==
    /\ pc = "done"
    /\ result.status = "raised"
    /\ result.error = "IndexError"
    /\ \E i \in DOMAIN req.rings : req.rings[i] = <<>>

\* ---------------------------------------------------------------------------
\* C16, C17: geometry round trips
\* ---------------------------------------------------------------------------

\* the coordinates of a list of points, by value
PointValues(points) == [k \in DOMAIN points |-> <<Tenths(points[k][1]), Tenths(points[k][2])>>]

ListValues(lists) == [k \in DOMAIN lists |-> PointValues(lists[k])]

\* a request polygon as Esri defines it: clockwise rings that neither cross nor
\* contain one another, every other ring inside a clockwise one
ValidRings(rings) ==
    LET outer == { k \in DOMAIN rings : IsClockwise(rings[k]) }
    IN /\ outer # {}
       /\ \A k \in outer, l \in outer :
            k # l => /\ ~ArraysIntersect(rings[k], rings[l])
                     /\ ~CoordinatesContainCoordinates(rings[k], rings[l])
       /\ \A h \in DOMAIN rings \ outer :
            \E k \in outer : CoordinatesContainCoordinates(rings[k], rings[h])

ValidEsri(feature) == "rings" \in DOMAIN feature => ValidRings(feature.rings)

\* what was read back is a geometry with the coordinates of the feature
SameCoordinates(feature, back) ==
    /\ back.error = ""
    /\ back.value # <<>>
    /\ DOMAIN back.value[1] = DOMAIN feature \ {"spatialReference"}
    /\ IF "x" \in DOMAIN feature
       THEN /\ Tenths(back.value[1].x) = Tenths(feature.x)
            /\ Tenths(back.value[1].y) = Tenths(feature.y)
       ELSE IF "paths" \in DOMAIN feature
       THEN ListValues(back.value[1].paths) = ListValues(feature.paths)
       ELSE ListValues(back.value[1].rings) = ListValues(feature.rings)

\* C16: for every valid Esri point, polyline or polygon and every SRID, the
\* text from_esri_feature writes, read back with to_esri_feature, is a geometry
\* with the same coordinates (same x/y, same paths, same rings)
C16_RoundTripKeepsCoordinates ==
    pc = "done" /\ call = from_esri_feature(req.feature, req.geom_type)
                /\ ValidEsri(req.feature)
        => SameCoordinates(req.feature, result)

\* C16: a point was written as EWKT and to_esri_feature returned None for the
\* text, whose type it reads as the SRID prefix followed by POINT
C16_PointReadBackAsNone ==
    /\ pc = "done"
    /\ "x" \in DOMAIN req.feature
    /\ call.value[1] = "SRID=" \o ToString(DefaultWkid) \o ";"
    /\ result = Converted(<<>>)

\* C16: read back from the text the database returns for it, a valid polygon
\* of two clockwise rings came back with one ring
C16_StoredPolygonReadBackWithoutRing ==
    /\ pc = "done"
    /\ "rings" \in DOMAIN req.feature
    /\ ValidRings(req.feature.rings)
    /\ Len(req.feature.rings) = 2
    /\ response.error = ""
    /\ response.value # <<>>
    /\ Len(response.value[1].rings) = 1

\* C16: read back from the text the database returns for it, a polyline of
\* integer coordinates raised JSONDecodeError
C16_StoredIntegerPathsRaise ==
    /\ pc = "done"
    /\ "paths" \in DOMAIN req.feature
    /\ req.feature.paths[1][1][1].f = ""
    /\ response.error = "JSONDecodeError"

\* C17: for every WKT text the database returns for a stored point,
\* linestring, multilinestring, polygon or multipolygon,
\* from_esri_feature(to_esri_feature(w), type) is the SRID-prefixed EWKT of
\* the same geometry in multi form, polygons with clockwise exterior rings:
\* nothing is lost, added or reordered
C17_StoredTextRoundTrip ==
    pc = "done" /\ req.wkt = StoredText(req.geometry[1])
        => /\ result.error = ""
           /\ Canonical(result.value) = MultiEwkt(req.geometry[1])

\* C17: a multipolygon of two polygons came back as the text of its first
\* polygon only
C17_SecondPolygonLost ==
    /\ pc = "done"
    /\ req.geometry[1].type = "MULTIPOLYGON"
    /\ Len(req.geometry[1].polygons) = 2
    /\ result.error = ""
    /\ Canonical(result.value)
         = MultiEwkt([type |-> "MULTIPOLYGON",
                      polygons |-> <<req.geometry[1].polygons[1]>>])

\* C17: the text of a linestring of integer coordinates raised JSONDecodeError
C17_IntegerLineStringRaises ==
    /\ pc = "done"
    /\ req.geometry[1].type = "LINESTRING"
    /\ req.geometry[1].points[1][1].f = ""
    /\ result.error = "JSONDecodeError"

\* the member polygons of a stored polygon or multipolygon
MemberPolygons(g) ==
    IF g.type = "POLYGON" THEN <<g.lists>>
    ELSE IF g.type = "MULTIPOLYGON" THEN g.polygons
    ELSE <<>>

\* C17: the round trip gives the expected text for every stored geometry
\* whose numbers are halves and that is no multipolygon of two polygons and
\* has no polygon whose rings are not yet turned as ST_ForceRHR turns them
C17_HalvesRoundTrip ==
    (/\ pc = "done"
     /\ result.error = ""
     /\ Len(MemberPolygons(req.geometry[1])) <= 1
     /\ \A k \in DOMAIN MemberPolygons(req.geometry[1]) :
           \/ Len(MemberPolygons(req.geometry[1])[k]) = 1
           \/ ForceRHR(MemberPolygons(req.geometry[1])[k]) = MemberPolygons(req.geometry[1])[k])
        => Canonical(result.value) = MultiEwkt(req.geometry[1])

\* C17: a polygon stored with a counter-clockwise exterior ring and a hole
\* came back as two polygons
C17_HoleBecomesPolygon ==
    /\ pc = "done"
    /\ req.geometry[1].type = "POLYGON"
    /\ Len(req.geometry[1].lists) = 2
    /\ ~IsClockwise(req.geometry[1].lists[1])
    /\ result.error = ""
    /\ Canonical(result.value) # MultiEwkt(req.geometry[1])

\* ---------------------------------------------------------------------------
\* C15: one Feature per parent row
\* ---------------------------------------------------------------------------

\* the object ids of the joined rows, and the rows of one of them in order
ParentIds == { req.rows[i].db_id : i \in DOMAIN req.rows }

RowsOfParent(id) == SelectSeq(req.rows, LAMBDA jr : jr.db_id = id)

\* the Features emitted for an object id, as positions
FeaturesOf(id) ==
    { i \in DOMAIN response.features :
        response.features[i].attributes[PRIMARY_KEY_NAME] = Val(id) }

\* the rows carry fields of the related table
RelatedSelected == \E i \in DOMAIN req.return_fields : Len(DotSplit(req.return_fields[i])) > 1

\* one Feature per object id, and with related fields selected its related
\* list has one entry per row of the parent, in the order of the rows
OneFeaturePerParent ==
    /\ response.error = ""
    /\ Len(response.features) = Cardinality(ParentIds)
    /\ \A id \in ParentIds :
         /\ Cardinality(FeaturesOf(id)) = 1
         /\ RelatedSelected =>
              \A i \in FeaturesOf(id) :
                LET rows == RowsOfParent(id)
                    title == Relations[1].related_title
                    feature == response.features[i]
                IN /\ feature.has_related
                   /\ DOMAIN feature.related = {title}
                   /\ Len(feature.related[title]) = Len(rows)
                   /\ \A k \in DOMAIN rows :
                        feature.related[title][k]["well_depth"]
                          = ColumnValue(table, rows[k], title, "well_depth")

\* a row of the result has no geometry though the geometry was asked for
GeometryMissing ==
    /\ req.return_geometry
    /\ \E i \in DOMAIN req.rows : SourceRow(table, req.rows[i].db_id)[GEOM_FIELD_NAME] = NullGeom

\* C15: for the rows of a layer joined to one related table,
\* convert_wkt_to_esri_feature emits exactly one Feature per distinct parent
\* object id; rows that share a parent each contribute one entry to that
\* Feature's related list and no second Feature is emitted
C15_OneFeaturePerParent == pc = "done" => OneFeaturePerParent

\* C15: two rows shared a parent, a row had no geometry, and the conversion
\* raised AttributeError instead of emitting Features
C15_RowWithoutGeometryRaises ==
    /\ pc = "done"
    /\ \E id \in ParentIds : Len(RowsOfParent(id)) = 2
    /\ GeometryMissing
    /\ response.error = "AttributeError"

\* C15: the grouping holds for all rows that have their geometry, in every
\* order of the rows
C15_OneFeaturePerParentWithGeometry == (pc = "done" /\ ~GeometryMissing) => OneFeaturePerParent

\* C15: two rows of one parent, apart in the result, became one Feature with
\* two related entries
C15_SharedParentGrouped ==
    /\ pc = "done"
    /\ response.error = ""
    /\ RelatedSelected
    /\ Len(req.rows) = 5
    /\ req.rows[1].db_id = req.rows[5].db_id
    /\ \E i \in DOMAIN response.features :
         Len(response.features[i].related[Relations[1].related_title]) = 2

(***************************************************************************)
(* Properties of the compiled statement (QuerySpec).                       *)
(***************************************************************************)
\* perform_query has composed its statement
Compiled == compiled # NoStatement

\* the lexemes of a select list that come from _expand_fields: those ahead of
\* the ST_AsText column
ExpandedPart(select) ==
    LET fn == {i \in DOMAIN select : select[i].ttype = "Function"}
    IN IF fn = {} THEN select
       ELSE SubSeq(select, 1, (CHOOSE i \in fn : \A j \in fn : i <= j) - 2)

\* the names of the qualified columns in a list of lexemes, in order: f for
\* "source"."f", title.f for "title"."f"
ColumnNames(lexemes) ==
    LET dots == SelectSeq([i \in DOMAIN lexemes |-> i], LAMBDA i : lexemes[i] = Dot)
    IN [k \in DOMAIN dots |->
          IF lexemes[dots[k] - 1].value = "source" THEN lexemes[dots[k] + 1].value
          ELSE lexemes[dots[k] - 1].value \o "." \o lexemes[dots[k] + 1].value]

SelectedNames == ColumnNames(ExpandedPart(compiled.select))

Occurrences(s, x) == Cardinality({i \in DOMAIN s : s[i] = x})

\* C21 (as claimed): in every query that is neither count-only nor ids-only the
\* object-id field is the first field of the SELECT list and appears in it
\* exactly once, and no field appears in the list twice.
C21_ObjectIdFirstAndOnce ==
    (Compiled /\ compiled.mode = "rows") =>
        /\ SelectedNames # <<>>
        /\ SelectedNames[1] = PRIMARY_KEY_NAME
        /\ \A i \in DOMAIN SelectedNames : Occurrences(SelectedNames, SelectedNames[i]) = 1

\* C21: the caller named the object-id field after another field and no
\* wildcard, and the SELECT list begins with that other field
C21_ObjectIdSelectedSecond ==
    /\ Compiled /\ compiled.mode = "rows"
    /\ call.sp.return_fields = <<"depth", PRIMARY_KEY_NAME>>
    /\ SelectedNames = <<"depth", PRIMARY_KEY_NAME>>

\* C21: what holds of the code: the object-id field is selected exactly once
\* and no field twice; it is the first field whenever the caller did not name
\* it, named it first, or asked for a wildcard or a related field.
C21_ObjectIdOnceAndFirstUnlessNamedLater ==
    (Compiled /\ compiled.mode = "rows") =>
        /\ Occurrences(SelectedNames, PRIMARY_KEY_NAME) = 1
        /\ \A i \in DOMAIN SelectedNames : Occurrences(SelectedNames, SelectedNames[i]) = 1
        /\ (\/ ~Contains(call.sp.return_fields, PRIMARY_KEY_NAME)
            \/ call.sp.return_fields[1] = PRIMARY_KEY_NAME
            \/ \E i \in DOMAIN call.sp.return_fields : IsWildOrDotted(call.sp.return_fields[i]))
           => SelectedNames[1] = PRIMARY_KEY_NAME

\* C21: a query whose return fields hold the wildcard beside a related
\* wildcard: every layer field is selected once, the object id first
C21_WildcardsExpandedOnce ==
    /\ Compiled /\ compiled.mode = "rows"
    /\ call.sp.return_fields = <<"*", "measurements.*">>
    /\ SelectedNames[1] = PRIMARY_KEY_NAME
    /\ Range(TableColumns) \subseteq Range(SelectedNames)

\* the titles of the layer's relations that qualify one of the names
TitlesIn(names) ==
    {r.related_title : r \in {q \in Range(Relations) :
        \E f \in names : Len(DotSplit(f)) > 1 /\ DotSplit(f)[1] = q.related_title}}

\* the fields the statement selects and orders by, and the fields of the
\* where-clause
ReturnNamesCompiled == Range(NamesOf(JoinFields(call.sp)))

OrderNamesCompiled ==
    IF compiled.mode = "rows" THEN Range(OrderByFieldNames(call.sp)) ELSE {}

WhereNames == IF Where = "" THEN {} ELSE ParseWhereClause(Where).fields

JoinedTitles == Range(compiled.related_tables)

\* C22 (as claimed): the relations joined are those whose title qualifies a
\* return field, an order-by field or a field of the where-clause, so every
\* related table the SELECT, WHERE or ORDER BY refers to is joined and no
\* other relation is.
C22_JoinedIffReferenced ==
    Compiled =>
        /\ JoinedTitles = TitlesIn(ReturnNamesCompiled \cup OrderNamesCompiled \cup WhereNames)
        /\ AliasesIn(compiled.select \o compiled.where \o compiled.order)
              \subseteq ({"source"} \cup JoinedTitles)

\* C22: the only related field of the request is an order-by field: the ORDER
\* BY refers to the relation, no relation is joined, and the database rejects
\* the statement
C22_OrderByRelatedFieldNotJoined ==
    /\ pc = "done" /\ compiled.mode = "rows"
    /\ "measurements" \in TitlesIn(OrderNamesCompiled)
    /\ "measurements" \in AliasesIn(compiled.order)
    /\ compiled.related_tables = <<>>
    /\ result.status = "raised" /\ result.error = "DatabaseError"

\* C22: what holds of the code: the relations joined are those whose title
\* qualifies a return field or a field of the where-clause, and the SELECT and
\* WHERE refer to joined relations only
C22_JoinedIffInFieldsOrWhere ==
    Compiled =>
        /\ JoinedTitles = TitlesIn(ReturnNamesCompiled \cup WhereNames)
        /\ AliasesIn(compiled.select \o compiled.where) \subseteq ({"source"} \cup JoinedTitles)

\* C22: a relation is joined for the where-clause alone
C22_JoinedForWhereClause ==
    /\ Compiled /\ compiled.related_tables = <<"measurements">>
    /\ TitlesIn(ReturnNamesCompiled) = {}
    /\ TitlesIn(WhereNames) = {"measurements"}

\* the positions of the compiled WHERE at which a time predicate compares the
\* layer's time column: "source"."<time field>" followed by the comparison
TimeComparisons(kind) ==
    LET w == compiled.where
        column == SourceColumn(layer.start_time_field)
    IN {i \in DOMAIN w :
          /\ i > 3 /\ SubSeq(w, i - 3, i - 1) = column
          /\ CASE kind = "exact" ->
                    /\ i < Len(w)
                    /\ w[i] = Code("Comparison", "=")
                    /\ w[i + 1] = Code("Placeholder", "%s::date")
               [] kind = "between" ->
                    /\ i + 3 <= Len(w)
                    /\ SubSeq(w, i, i + 3) =
                         <<Code("Keyword", "BETWEEN"), Code("Placeholder", "%s::date"),
                           Code("Keyword", "AND"), Code("Placeholder", "%s::date")>>
               [] OTHER ->
                    /\ i < Len(w)
                    /\ w[i] = Code("Comparison", "=")
                    /\ w[i + 1] = Lexeme("MinSubquery", layer.start_time_field, "catalog")}

TimePredicates(kind) == Cardinality(TimeComparisons(kind))

\* the lexemes only a time predicate writes, wherever they stand
TimeLexemes ==
    {i \in DOMAIN compiled.where :
        \/ compiled.where[i] \in {Code("Placeholder", "%s::date"), Code("Keyword", "BETWEEN")}
        \/ compiled.where[i].ttype = "MinSubquery"}

TimeParams == SelectSeq(compiled.params, LAMBDA p : p.kind = "time")

StartGiven == call.sp.start_time # <<>>

C23_CountOnlyWithoutTimeStep ==
    /\ Compiled /\ layer.start_time_field # ""
    /\ call.sp.count_only /\ ~StartGiven /\ Where = ""
    /\ call.sp.object_ids # <<>>
    /\ TimeLexemes = {}

C23_BetweenSelected ==
    /\ Compiled /\ TimePredicates("between") = 1 /\ Where # ""

\* the words of a text: its maximal runs of characters other than the space
Words(chars) ==
    LET starts == SelectSeq([i \in DOMAIN chars |-> i],
                            LAMBDA i : chars[i] # " " /\ (i = 1 \/ chars[i - 1] = " "))
        end(i) == IF \E j \in i..Len(chars) : chars[j] = " "
                  THEN (CHOOSE j \in i..Len(chars) :
                            chars[j] = " " /\ \A k \in i..(j - 1) : chars[k] # " ") - 1
                  ELSE Len(chars)
    IN [k \in DOMAIN starts |-> SubSeq(chars, starts[k], end(starts[k]))]

\* an order-by field as the caller means it: the field, and the modifier that
\* follows it, if one does
Meant(text) ==
    LET words == Words(Chars(text))
        given == Len(words) > 1
                 /\ [k \in DOMAIN words[2] |-> LowerChar(words[2][k])]
                       \in {<<"a", "s", "c">>, <<"d", "e", "s", "c">>}
    IN [field_name |-> Joined(words[1]),
        order_modifier |-> IF given THEN Joined(words[2]) ELSE ""]

\* the meaning of each order-by field a request may carry
MeantOrders == [text \in OrderByTexts |-> Meant(text)]

\* the ORDER BY list that holds the caller's fields in the caller's order, each
\* with the modifier the caller gave it
OrderAsGiven ==
    <<Code("Keyword", "ORDER BY")>>
    \o JoinComma([i \in DOMAIN call.sp.order_by_fields |->
                    AliasField(Field(MeantOrders[call.sp.order_by_fields[i]].field_name,
                                     "orderByFields"))
                    \o (IF MeantOrders[call.sp.order_by_fields[i]].order_modifier = "" THEN <<>>
                        ELSE <<Lexeme("Keyword",
                                      MeantOrders[call.sp.order_by_fields[i]].order_modifier,
                                      "orderByFields")>>)])

ExplicitOrderWithoutJoin ==
    /\ Compiled /\ compiled.mode = "rows"
    /\ call.sp.order_by_fields # <<>>
    /\ compiled.related_tables = <<>>

\* C24 (as claimed): with explicit order-by fields and no joined related table
\* the ORDER BY list holds exactly the caller's fields in the caller's order,
\* each followed by its ASC or DESC modifier when the caller gave one, in
\* whatever case, and by no modifier otherwise.
C24_OrderByAsGiven == ExplicitOrderWithoutJoin => compiled.order = OrderAsGiven

\* C24: the caller separated DESC from the field by two spaces; the statement
\* orders by the field without modifier, and its rows were returned
C24_ModifierDropped ==
    /\ ExplicitOrderWithoutJoin /\ pc = "done" /\ result.status = "returned"
    /\ call.sp.order_by_fields = <<"depth  DESC">>
    /\ compiled.order = <<Code("Keyword", "ORDER BY"), Code("Name", "source"), Dot,
                          Lexeme("Name", "depth", "orderByFields")>>

\* C24: the caller ordered by a related field; the ORDER BY list holds the
\* object id and the relation's source column ahead of it
C24_KeysAheadOfRelatedField ==
    /\ ExplicitOrderWithoutJoin
    /\ call.sp.order_by_fields = <<"measurements.well_depth">>
    /\ ColumnNames(compiled.order) = <<PRIMARY_KEY_NAME, "site", "measurements.well_depth">>

\* C24: what holds of the code: the ORDER BY list is the caller's when every
\* order-by field is a field of the layer itself and at most one space
\* separates it from its modifier
C24_OrderByAsGivenForLayerFields ==
    (/\ ExplicitOrderWithoutJoin
     /\ \A i \in DOMAIN call.sp.order_by_fields :
           /\ Occurrences(Chars(call.sp.order_by_fields[i]), " ")
                 < Len(Words(Chars(call.sp.order_by_fields[i])))
           /\ ~IsWildOrDotted(MeantOrders[call.sp.order_by_fields[i]].field_name))
    => compiled.order = OrderAsGiven

\* C24: a lower-case modifier was honoured
C24_LowerCaseModifierKept ==
    /\ ExplicitOrderWithoutJoin
    /\ call.sp.order_by_fields = <<"depth desc">>
    /\ compiled.order = <<Code("Keyword", "ORDER BY"), Code("Name", "source"), Dot,
                          Lexeme("Name", "depth", "orderByFields"),
                          Lexeme("Keyword", "desc", "orderByFields")>>

OrderedNames == ColumnNames(compiled.order)

\* the source columns of the joined relations, highest related_index first
JoinedSourceColumns ==
    LET joined == ByIndexDescending(
                    SelectSeq(Relations, LAMBDA r : r.related_title \in JoinedTitles))
    IN [i \in DOMAIN joined |-> joined[i].source_column]

DefaultOrder == Compiled /\ compiled.mode # "count" /\ call.sp.order_by_fields = <<>>

\* C25 (as claimed): without order-by fields every non-count query orders by
\* the object-id field; when related tables are joined, the source column of
\* each joined relation stands ahead of the object-id field, which still
\* appears in the ORDER BY.
C25_DefaultOrderHoldsObjectId ==
    DefaultOrder =>
        /\ Contains(OrderedNames, PRIMARY_KEY_NAME)
        /\ IF compiled.mode = "rows" /\ JoinedTitles # {}
           THEN /\ Len(OrderedNames) > Len(JoinedSourceColumns)
                /\ SubSeq(OrderedNames, 1, Len(JoinedSourceColumns)) = JoinedSourceColumns
                /\ OrderedNames[Len(JoinedSourceColumns) + 1] = PRIMARY_KEY_NAME
           ELSE OrderedNames[1] = PRIMARY_KEY_NAME

\* C25: a relation was joined for the where-clause, no order was given, and
\* the statement orders by the relation's source column alone
C25_JoinedOrderWithoutObjectId ==
    /\ DefaultOrder /\ compiled.mode = "rows"
    /\ compiled.related_tables = <<"measurements">>
    /\ OrderedNames = <<"site">>
    /\ compiled.limit # <<>>

\* C25: what holds of the code: without order-by fields a statement that joins
\* no relation, and every ids-only statement, orders by the object-id field
\* first; a rows statement that joins relations orders by their source columns
\* and by nothing else.
C25_DefaultOrderByObjectIdOrSourceColumns ==
    DefaultOrder =>
        IF compiled.mode = "rows" /\ JoinedTitles # {}
        THEN OrderedNames = JoinedSourceColumns
        ELSE OrderedNames[1] = PRIMARY_KEY_NAME

\* C25: a statement without join and without order-by fields orders by the
\* object id and then by the other fields of the layer
C25_OrderedByObjectIdFirst ==
    /\ DefaultOrder /\ compiled.mode = "rows" /\ compiled.related_tables = <<>>
    /\ OrderedNames[1] = PRIMARY_KEY_NAME /\ Len(OrderedNames) > 1

\* the object ids of the rows the compiled WHERE selects from the joined rows
MatchingIds ==
    LET joined == JoinedRows(table, compiled.related_tables)
    IN {joined[i].db_id : i \in {j \in DOMAIN joined :
            WhereHolds(table, joined[j], compiled.where, compiled.params)}}

BothFlags == req.returnIdsOnly = "true" /\ req.returnCountOnly = "true"

\* an ids-only statement selects DISTINCT "source"."<object id>" and nothing
\* else, orders by the object id, and returns each matching object id once
IdsOnlyDistinct ==
    /\ compiled.select = <<Code("Keyword", "DISTINCT"), Code("Name", "source"), Dot,
                           Lexeme("Name", PRIMARY_KEY_NAME, "catalog")>>
    /\ OrderedNames = <<PRIMARY_KEY_NAME>>
    /\ (pc = "done" /\ result.status = "returned") =>
          /\ {result.data[i].db_id : i \in DOMAIN result.data} = MatchingIds
          /\ \A i, j \in DOMAIN result.data :
                result.data[i].db_id = result.data[j].db_id => i = j
          /\ \A i, j \in DOMAIN result.data :
                i < j => result.data[i].db_id < result.data[j].db_id

\* C26 (as claimed): an ids-only statement selects only the DISTINCT object id,
\* ordered by the object id, and returns every matching object id once; a
\* request that sets returnIdsOnly and returnCountOnly is run in ids-only mode,
\* and no request in both modes.
C26_IdsOnlyDistinctAndExclusive ==
    /\ (Compiled /\ compiled.mode = "ids") => IdsOnlyDistinct
    /\ (call # NoCall) =>
          /\ ~(call.sp.ids_only /\ call.sp.count_only)
          /\ BothFlags => call.sp.ids_only

\* C26: a csv request set both flags: it was run in count-only mode and ended
\* in a server error
C26_BothFlagsRunCountOnly ==
    /\ pc = "done" /\ BothFlags /\ req.f = "csv"
    /\ call.sp.count_only /\ ~call.sp.ids_only
    /\ compiled.mode = "count"
    /\ response.status = 500

\* C26: what holds of the code: the ids-only statement is as claimed, no request
\* runs in both modes, and a request with both flags runs in ids-only mode
\* unless its format is csv
C26_IdsOnlyDistinctAndExclusiveForJson ==
    /\ (Compiled /\ compiled.mode = "ids") => IdsOnlyDistinct
    /\ (call # NoCall) =>
          /\ ~(call.sp.ids_only /\ call.sp.count_only)
          /\ (BothFlags /\ req.f # "csv") => call.sp.ids_only

\* C26: an ids-only query over a one-to-many join returned the parent once
C26_ParentOfTwoReturnedOnce ==
    /\ pc = "done" /\ result.status = "returned" /\ compiled.mode = "ids"
    /\ compiled.related_tables = <<"measurements">>
    /\ Len(SelectSeq(JoinedRows(table, compiled.related_tables),
                     LAMBDA jr : jr.db_id = 1
                                 /\ WhereHolds(table, jr, compiled.where, compiled.params))) = 2
    /\ Occurrences([i \in DOMAIN result.data |-> result.data[i].db_id], 1) = 1

\* the positions of the compiled WHERE that hold the client's tokens
ClientPositions ==
    SelectSeq([i \in DOMAIN compiled.where |-> i], LAMBDA i : compiled.where[i].org = "where")

ClientTokens == [k \in DOMAIN ClientPositions |-> compiled.where[ClientPositions[k]]]

\* the client's token at position k of the parsed where-clause is a name that
\* no dot joins to another name
IsBare(toks, k) ==
    /\ toks[k].ttype = "Name"
    /\ ~(k > 1 /\ IsDot(toks[k - 1]))
    /\ ~(k < Len(toks) /\ IsDot(toks[k + 1]))

\* the lexemes "source". stand right before position i of the compiled WHERE
SourceAliasBefore(i) ==
    /\ i > 2
    /\ compiled.where[i - 2] = Code("Name", "source")
    /\ compiled.where[i - 1] = Dot

\* C28: the compiled WHERE of a validated where-clause holds every token of the
\* client's clause unchanged and in its order; every bare identifier is written
\* "source"."<name>", every segment of a qualified identifier without source
\* alias, and nothing else is written between the client's tokens.
C28_WhereClauseRewritten ==
    (Compiled /\ Where # "") =>
        LET toks == SqlParse(Where)[1]
            last == ClientPositions[Len(ClientPositions)]
            aliases == Cardinality({k \in DOMAIN toks : IsBare(toks, k)})
        IN /\ ClientTokens = toks
           /\ \A k \in DOMAIN toks :
                 toks[k].ttype = "Name" =>
                    (IsBare(toks, k) <=> SourceAliasBefore(ClientPositions[k]))
           /\ last = Len(toks) + 2 * aliases

\* C28: a clause with parentheses, OR and two bare identifiers was rewritten
C28_BareIdentifiersAliased ==
    /\ Compiled /\ Where = "(site = 1 OR depth = 1)"
    /\ SubSeq(compiled.where, 1, 14) =
         <<Kw("WHERE"), Pn("("), Code("Name", "source"), Dot, Nm("site"), Op("="), Num("1"),
           Kw("OR"), Code("Name", "source"), Dot, Nm("depth"), Op("="), Num("1"), Pn(")")>>

\* C28: a qualified identifier was written without source alias
C28_QualifiedIdentifierKept ==
    /\ Compiled /\ Where = "measurements.well_depth = 1"
    /\ SubSeq(compiled.where, 1, 6) =
         <<Kw("WHERE"), Nm("measurements"), Pn("."), Nm("well_depth"), Op("="), Num("1")>>

(***************************************************************************)
(* Properties of derive_error_response_data (ErrorSpec).                   *)
(***************************************************************************)
Derived == pc = "done" /\ "error_code" \in DOMAIN result

\* the message of the error holds the words, in whatever case
Mentions(words) == In(words, StrLower(error_to_string(req.e)))

\* C27: the error code is TRANSFORM if the message mentions 'transform'; else
\* DUPLICATE_COLUMN if it mentions 'column' and 'specified more than once';
\* else BAD_DATA if it mentions 'out of range' or 'invalid input syntax'; else
\* the caller's code. field_info and file_info are present exactly when the
\* error has fields or file info, and error_line only for an 'invalid input
\* syntax' message with a LINE marker.
C27_ErrorClassifiedByMessage ==
    Derived =>
        /\ result.error_code =
             (IF Mentions(TransformWord) THEN TRANSFORM
              ELSE IF Mentions(ColumnWord) /\ Mentions(MoreThanOnceWords) THEN DUPLICATE_COLUMN
              ELSE IF Mentions(OutOfRangeWords) \/ Mentions(InvalidSyntaxWords) THEN BAD_DATA
              ELSE req.code)
        /\ result.underlying = error_to_string(req.e)
        /\ ("field_info" \in DOMAIN result) <=> (req.e.fields # <<>>)
        /\ ("field_info" \in DOMAIN result) => result.field_info = req.e.fields
        /\ ("file_info" \in DOMAIN result) <=> (req.e.file_info # <<>>)
        /\ ("file_info" \in DOMAIN result) => result.file_info = req.e.file_info
        /\ ("error_line" \in DOMAIN result) =>
              (Mentions(InvalidSyntaxWords) /\ In(line_marker, error_to_string(req.e)))

\* C27: a message that mentions 'Transform' and 'Out Of Range' in mixed case
\* was classified TRANSFORM although the caller supplied another code
C27_TransformBeforeBadData ==
    /\ Derived
    /\ Mentions(TransformWord) /\ Mentions(OutOfRangeWords)
    /\ ~In(TransformWord, error_to_string(req.e))
    /\ req.code = DUPLICATE_COLUMN
    /\ result.error_code = TRANSFORM

\* C27: the line was read from an 'invalid input syntax' message
C27_ErrorLineRead ==
    /\ Derived
    /\ "error_line" \in DOMAIN result
    /\ result.error_line = <<<<"1", "2">>>>
    /\ result.error_code = BAD_DATA

\* C27: an 'invalid input syntax' message with a LINE marker and no colon
\* after it carries no error_line
C27_NoErrorLineWithoutColon ==
    /\ Derived
    /\ Mentions(InvalidSyntaxWords) /\ In(line_marker, error_to_string(req.e))
    /\ result.error_code = BAD_DATA
    /\ "error_line" \notin DOMAIN result

\* C27: an error without message text falls back on the caller's code
C27_CallerCodeKept ==
    /\ Derived
    /\ req.e.class = "InvalidFileError" /\ req.code = BAD_DATA
    /\ result.error_code = BAD_DATA
    /\ ~Mentions(OutOfRangeWords) /\ ~Mentions(InvalidSyntaxWords)
    /\ "file_info" \in DOMAIN result /\ "field_info" \notin DOMAIN result

\* the entries of a list with the number of times each occurs
Counted(list) == [e \in Range(list) |-> Cardinality({i \in DOMAIN list : list[i] = e})]

\* what a conversion returned, without the order of the Features and of the
\* entries of their related lists
Unordered(converted) ==
    [error |-> converted.error,
     count |-> Len(converted.features),
     features |->
        {[attributes |-> f.attributes, geometry |-> f.geometry, has_related |-> f.has_related,
          related |-> [t \in DOMAIN f.related |-> Counted(f.related[t])]]
           : f \in Range(converted.features)}]

\* the position, among the rows of the response, of the row that is k-th when
\* the rows are put in the order of their parent and related row
Ascending(k) ==
    CHOOSE i \in DOMAIN req.rows :
        Cardinality({j \in DOMAIN req.rows :
                        \/ req.rows[j].db_id < req.rows[i].db_id
                        \/ /\ req.rows[j].db_id = req.rows[i].db_id
                           /\ req.rows[j].rel < req.rows[i].rel}) = k - 1

\* the rows of the response with the rows of each parent adjacent
Adjacent == [k \in DOMAIN result.data |-> result.data[Ascending(k)]]

\* rows of one parent stand apart, a row of another parent between them
Interleaved ==
    \E i, j, k \in DOMAIN req.rows :
        /\ i < j /\ j < k
        /\ req.rows[i].db_id = req.rows[k].db_id
        /\ req.rows[i].db_id # req.rows[j].db_id

\* C29: whatever the order of the rows, convert_wkt_to_esri_feature returns
\* what it returns for the same rows with the rows of each parent adjacent: the
\* same Features, one per parent object id, whose related lists hold the same
\* entries (or the same exception); so any two orders of the rows give the same.
C29_ConversionIndependentOfRowOrder ==
    pc = "done" =>
        /\ Unordered(response) = Unordered(ConvertWktToEsriFeature(Adjacent))
        /\ response.error = "" => Len(response.features) = Cardinality(ParentIds)

\* C29: the rows of a parent stood apart and were gathered in one Feature with
\* two related entries
C29_InterleavedRowsGathered ==
    /\ pc = "done" /\ Interleaved /\ RelatedSelected
    /\ response.error = ""
    /\ Len(response.features) = Cardinality(ParentIds)
    /\ \E i \in DOMAIN response.features :
          Len(response.features[i].related[Relations[1].related_title]) = 2

(***************************************************************************)
(* Properties of the field list across requests (SchemaSpec).              *)
(***************************************************************************)
\* C30: every field list a request uses was read from the schema by that same
\* request, so it shows every schema change made before the request began; when
\* the schema did not change during the request it is the schema as it is; and
\* the list kept on a layer object was read by the request that made the object.
C30_FieldsReadByTheRequestThatUsesThem ==
    /\ \A k \in DOMAIN executed :
          /\ executed[k].fields.read_in = executed[k].request
          /\ executed[k].fields.version >= executed[k].dispatched
          /\ executed[k].live.version = executed[k].dispatched
                => executed[k].fields.columns = executed[k].live.columns
    /\ \A o \in DOMAIN layer.objects :
          layer.objects[o]._fields # <<>> => layer.objects[o]._fields[1].read_in = o

\* C30: the schema changed between two requests; the object of the earlier
\* request still holds the old list, and the later request used the new one
C30_LaterRequestSeesChange ==
    /\ Len(layer.objects) >= 2
    /\ layer.objects[1]._fields # <<>>
    /\ layer.objects[1]._fields[1].columns = TableColumns
    /\ \E k \in DOMAIN executed :
          /\ executed[k].request = 2
          /\ executed[k].dispatched > layer.objects[1]._fields[1].version
          /\ executed[k].fields.columns = executed[k].live.columns
          /\ executed[k].fields.columns # TableColumns
          /\ \E j \in DOMAIN executed :
                j < k /\ executed[j].request = 2 /\ executed[j].fields = executed[k].fields

====
